---- MODULE Spec2Model ----
(***************************************************************************)
(* Savantra: the topic persistence gateway (TopicService, CourseService)   *)
(* over the hosted backend tables `courses` and `topics`, and the topic    *)
(* extraction client (TopicExtractionService).                             *)
(*                                                                         *)
(* Strings the code computes on (titles, keywords, contents) are sequences *)
(* of one-character strings, so that trim, join and split are computed.    *)
(* Every `await` on the backend client is one step of a client process;    *)
(* the steps of different clients interleave freely under Spec and not at  *)
(* all under SeqSpec.                                                      *)
(***************************************************************************)
EXTENDS Integers, Sequences, FiniteSets, TLC

VARIABLES
    courses,    \* rows of the backend table `courses`
    topics,     \* rows of the backend table `topics`
    nextId,     \* the id the backend gives to the next inserted topic row
    pc,         \* per client: the await its current service call is at
    call,       \* per client: the service call in progress and its locals
    ret,        \* per client: the ServiceResponse of the call
    calls,      \* service calls started so far, counted up to MaxCalls
    lastSaved,  \* history: the last successful save, until the next write
    apiKey,     \* TopicExtractionService.config.apiKey
    xpc,        \* where the extractTopics call is: idle, fetching, done
    xtext,      \* the syllabusText the call was given
    xreq,       \* the cleaned text in the prompt of the request in flight
    xresp,      \* the provider's answer to the request
    xres,       \* the TopicExtractionResponse of the call
    requests,   \* HTTP requests the call has issued
    nextCourse, \* the number in the id the backend gives the next course
    sCourses,   \* useCourseStore: courses, the list the screens show
    sLoading,   \* useCourseStore: isLoading
    sError,     \* useCourseStore: error
    sBefore,    \* history, per client: the length of courses at its store call
    sSelected,  \* useCourseStore: selectedCourse
    sTopics,    \* useCourseStore: topics
    sLoadingTopics, \* useCourseStore: isLoadingTopics
    sTopicError,    \* useCourseStore: topicError
    sRequested, \* history: the course of the last fetchTopicsForCourse call
    mounted,    \* CoursesListScreen is on display
    cvStage,    \* the conversions applied so far: "none", "extracted", "topic", "back"
    cvIn,       \* the ExtractedTopic handed to extractedTopicToTopic
    cvTopic,    \* the Topic row made of it
    cvOut,      \* the ExtractedTopic topicToExtractedTopic makes of the row
    aUser,      \* useAuthStore: user (NoUser stands for null)
    aAuthenticated, \* useAuthStore: isAuthenticated
    aLoading,   \* useAuthStore: isLoading
    aPc,        \* per auth action: "idle" or "await" (its service call is out)
    aCalls,     \* auth actions started so far
    aLast,      \* history: what the auth store did last
    nav,        \* the route on display in the add-content flow
    alert,      \* the dialog that is open, and the topic id it is about
    selectedFile,   \* AddContentScreen: a file has been picked
    processingStep, \* AddContentScreen: idle, reading, extracting, complete
    initialTopics,  \* ReviewTopicsScreen: the topics prop
    rTopics,    \* ReviewTopicsScreen: topics
    editingId,  \* ReviewTopicsScreen: editingId
    editingTitle,   \* ReviewTopicsScreen: editingTitle
    ms,         \* Date.now(), in milliseconds
    saving,     \* useCourseStore: isLoadingTopics during saveTopicsForCourse
    savedList,  \* the list handed to the last saveTopicsForCourse call
    events,     \* history: what has happened in the flow so far
    clock,      \* the time of the device, in hours since the epoch (UTC)
    tz,         \* the device's time zone: local time minus UTC, in hours
    form,       \* the form data last given to createCourseSchema
    verdict,    \* what createCourseSchema made of it, and at which time
    fpc,        \* where the readFileText call is: idle, extracting, done
    file,       \* the FileInfo the call was given
    fres,       \* the FileReadResult of the call
    extractions, \* text extractions the call has started
    cin,        \* a text handed to a cleaning transform
    cfn,        \* the cleaning transform applied to it
    cout        \* the results of applying the transform once, then again

gateway == <<courses, topics, nextId, pc, call, ret, calls, lastSaved>>

extraction == <<apiKey, xpc, xtext, xreq, xresp, xres, requests>>

cleaning == <<cin, cfn, cout>>

reader == <<fpc, file, fres, extractions>>

store == <<sCourses, sLoading, sError, sBefore>>

conversion == <<cvStage, cvIn, cvTopic, cvOut>>

auth == <<aUser, aAuthenticated, aLoading, aPc, aCalls, aLast>>

topicStore == <<sSelected, sTopics, sLoadingTopics, sTopicError, sRequested>>

screen == <<mounted>>

flow == <<nav, alert, selectedFile, processingStep, initialTopics, rTopics,
          editingId, editingTitle, ms, saving, savedList, events>>

schema == <<clock, tz, form, verdict>>

vars == <<gateway, nextCourse, store, topicStore, screen, flow, schema, extraction, reader, cleaning, conversion, auth>>

\* what the gateway's steps leave alone, and what the extraction client's
offGateway == <<store, topicStore, screen, flow, schema, extraction, reader, cleaning, conversion, auth>>
offExtraction == <<gateway, nextCourse, store, topicStore, screen, flow, schema, reader, cleaning, conversion, auth>>
offCleaning == <<gateway, nextCourse, store, topicStore, screen, flow, schema, extraction, reader, conversion, auth>>
offReader == <<gateway, nextCourse, store, topicStore, screen, flow, schema, extraction, cleaning, conversion, auth>>
offSchema == <<gateway, nextCourse, store, topicStore, screen, flow, extraction, reader, cleaning, conversion, auth>>
\* what a step of the course store and of the service under it leaves alone
offStore == <<screen, flow, schema, extraction, reader, cleaning, conversion, auth>>
\* what a step of the courses list screen leaves alone
offScreen == <<nextCourse, flow, schema, extraction, reader, cleaning, conversion, auth>>
\* no step of TopicService or of deleteCourse creates a course
\* what no step of the add-content flow touches
offConversion == <<gateway, nextCourse, store, topicStore, screen, flow, schema, extraction, reader, cleaning, auth>>
offAuth == <<gateway, nextCourse, store, topicStore, screen, flow, schema, extraction, reader, cleaning, conversion>>
offFlow == <<gateway, nextCourse, store, topicStore, screen, schema, cleaning, conversion, auth>>

offTopics == <<nextCourse, offGateway>>

backend == <<courses, topics, nextId>>

(***************************************************************************)
(* Bounds and input sets                                                   *)
(***************************************************************************)
\* topic rows the backend hands out ids for, over a whole behaviour
MaxTopicId == 4
\* service calls started in a behaviour of Spec, where calls interleave
MaxCalls == 2
\* the highest number in the id of a course; c1 and c2 exist from the start
MaxCourseId == 3

Clients == {"p1", "p2"}
Users == {"u1", "u2"}
NoUser == "anon"
\* who calls the services: the owner of c1, and a session with no user;
\* u2 owns c2 and makes no calls, so every call on c2 is by a non-owner
Callers == {"u1", NoUser}
CourseIds == {"c1", "c2"}
NoCourse == "nocourse"
None == "none"
NoSave == [course |-> NoCourse, list |-> <<>>]
\* ExtractedTopic.keywords is optional: absent, or a list of strings
NoKeywords == [present |-> FALSE, list |-> <<>>]
Kw(list) == [present |-> TRUE, list |-> list]

\* a backend call resolves without error, resolves with an error, or rejects
Outcomes == {"ok", "error", "throw"}

X == <<"X">>
Y == <<"Y">>

ET(id, title, order, keywords) ==
    [id |-> id, title |-> title, order |-> order, keywords |-> keywords]

\* the lists handed to saveTopicsForCourse; order 0 stands for a falsy order
SaveInputs ==
    { <<>>,
      << ET("topic-1", Y, 1, Kw(<< <<"a">>, <<"b">> >>)) >>,
      << ET("topic-1", X, 1, NoKeywords), ET("topic-2", Y, 2, NoKeywords) >>,
      << ET("topic-1", Y, 2, NoKeywords), ET("topic-2", X, 0, NoKeywords) >> }

\* the topicData handed to createTopic
CreateInputs ==
    { [title |-> X, content |-> <<>>, orderIndex |-> 3] }

\* the updates handed to updateTopic (a Partial<Pick<Topic, ...>>)
UpdateInputs ==
    { [title |-> Y], [orderIndex |-> 1] }

(***************************************************************************)
(* Pure helpers                                                            *)
(***************************************************************************)
RECURSIVE Join(_, _)
\* Array.prototype.join
Join(parts, sep) ==
    IF parts = <<>> THEN <<>>
    ELSE IF Len(parts) = 1 THEN parts[1]
    ELSE parts[1] \o sep \o Join(Tail(parts), sep)

CommaSpace == <<",", " ">>

Titles(s) == [i \in 1..Len(s) |-> s[i].title]

\* the orders of the list are 1..n in array order
OrdersOneToN(L) == \A i \in 1..Len(L) : L[i].order = i

\* object spread {...row, ...upd} restricted to the row's columns
Merge(row, upd) ==
    [k \in DOMAIN row |-> IF k \in DOMAIN upd THEN upd[k] ELSE row[k]]

(***************************************************************************)
(* The backend tables                                                      *)
(***************************************************************************)
Course(id, userId, flag) ==
    [id |-> id, userId |-> userId, topicsExtracted |-> flag]

CourseExists(C, c) == \E k \in C : k.id = c

OwnerOf(C, c) == IF CourseExists(C, c)
                 THEN (CHOOSE k \in C : k.id = c).userId
                 ELSE None

FlagOf(C, c) == /\ CourseExists(C, c)
                /\ (CHOOSE k \in C : k.id = c).topicsExtracted

TopicsOf(T, c) == {t \in T : t.courseId = c}

TopicExists(T, id) == \E t \in T : t.id = id

TopicById(T, id) == CHOOSE t \in T : t.id = id

\* the lookup without the owner filter
VerifyCourseExists(C, u, c, outcome) ==
    /\ u # NoUser
    /\ outcome = "ok"
    /\ \E k \in C : k.id = c

\* .from('courses').select().eq('id', c).eq('"userId"', u).single()
VerifyCourseOwnership(C, u, c, outcome) ==
    /\ u # NoUser
    /\ outcome = "ok"
    /\ \E k \in C : k.id = c /\ k.userId = u

\* .from('topics').select('courseId, courses!inner(userId)').eq('id', id).single()
\* followed by the test (topic as any).courses.userId !== userId
VerifyTopicOwnership(C, T, u, id, outcome) ==
    /\ u # NoUser
    /\ outcome = "ok"
    /\ \E t \in T : t.id = id /\ OwnerOf(C, t.courseId) = u

\* extractedTopics.map((topic, index) => ({...}))
TopicsToInsert(c, L) ==
    [i \in 1..Len(L) |->
        [courseId |-> c,
         title |-> L[i].title,
         content |-> IF L[i].keywords.present
                     THEN Join(L[i].keywords.list, CommaSpace) ELSE <<>>,
         orderIndex |-> IF L[i].order # 0 THEN L[i].order ELSE i]]

\* the rows an insert stores: the backend adds the id column
WithIds(rows, first) ==
    [i \in 1..Len(rows) |->
        [id |-> first + i - 1, courseId |-> rows[i].courseId,
         title |-> rows[i].title, content |-> rows[i].content,
         orderIndex |-> rows[i].orderIndex]]

Range(s) == {s[i] : i \in 1..Len(s)}

\* the delete with a filter that matches no row
DeleteNoTopics(T, c) == T

\* .from('topics').delete().eq('"courseId"', c)
DeleteTopicsOfCourse(T, c) == {t \in T : t.courseId # c}

\* the select without its order clause: the rows in any order
SelectTopicsUnordered(T, c) ==
    LET rows == TopicsOf(T, c)
        n == Cardinality(rows)
    IN {s \in [1..n -> rows] : \A i, j \in 1..n : i < j => s[i] # s[j]}

\* .from('topics').select('*').eq('"courseId"', c).order('"orderIndex"'):
\* every listing of the course's rows by ascending orderIndex (ties in any order)
SelectTopics(T, c) ==
    LET rows == TopicsOf(T, c)
        n == Cardinality(rows)
    IN {s \in [1..n -> rows] :
            /\ \A i, j \in 1..n : i < j => s[i] # s[j]
            /\ \A i, j \in 1..n : i < j => s[i].orderIndex <= s[j].orderIndex}

\* .from('courses').update({topicsExtracted: true, ...}).eq('id', c)
MarkTopicsExtracted(C, c) ==
    {IF k.id = c THEN [k EXCEPT !.topicsExtracted = TRUE] ELSE k : k \in C}

\* .from('courses').delete().eq('id', id).eq('userId', u)
DeleteCourseRows(C, id, u) == {k \in C : ~(k.id = id /\ k.userId = u)}

\* the backend's ON DELETE CASCADE from courses to topics
CascadeTopics(T, C) == {t \in T : CourseExists(C, t.courseId)}

\* the backend's foreign key topics.courseId -> courses.id
ForeignKeyHolds(C, c) == CourseExists(C, c)

(***************************************************************************)
(* Client processes                                                        *)
(***************************************************************************)
NoCall ==
    [op |-> None, user |-> NoUser, course |-> NoCourse, list |-> <<>>,
     tid |-> 0, data |-> None, authorized |-> FALSE]

NoRet == [success |-> FALSE, data |-> None, error |-> None, updateError |-> FALSE]

Failure(msg) ==
    [success |-> FALSE, data |-> None, error |-> msg, updateError |-> FALSE]

Success(data, updateError) ==
    [success |-> TRUE, data |-> data, error |-> None, updateError |-> updateError]

GatewayInit ==
    /\ courses = {Course("c1", "u1", FALSE), Course("c2", "u2", FALSE)}
    /\ topics = {[id |-> 1, courseId |-> "c2", title |-> Y, content |-> <<>>,
                   orderIndex |-> 1]}
    /\ nextId = 2
    /\ pc = [p \in Clients |-> "idle"]
    /\ call = [p \in Clients |-> NoCall]
    /\ ret = [p \in Clients |-> NoRet]
    /\ calls = 0
    /\ lastSaved = NoSave

\* a service call starts: getCurrentUserId() is its first await
Invoke(p, op, u, c, L, tid, data, first) ==
    /\ pc[p] = "idle"
    /\ calls' = IF calls < MaxCalls THEN calls + 1 ELSE calls
    /\ call' = [call EXCEPT ![p] =
            [op |-> op, user |-> u, course |-> c, list |-> L, tid |-> tid,
             data |-> data,
             authorized |->
                /\ u # NoUser
                /\ IF tid = 0 THEN OwnerOf(courses, c) = u
                   ELSE /\ TopicExists(topics, tid)
                        /\ OwnerOf(courses, TopicById(topics, tid).courseId) = u]]
    /\ IF u = NoUser
       THEN /\ pc' = [pc EXCEPT ![p] = "done"]
            /\ ret' = [ret EXCEPT ![p] = Failure("User not authenticated")]
       ELSE /\ pc' = [pc EXCEPT ![p] = first]
            /\ ret' = [ret EXCEPT ![p] = NoRet]
    /\ UNCHANGED <<backend, lastSaved>>

Finish(p, r) ==
    /\ pc' = [pc EXCEPT ![p] = "done"]
    /\ ret' = [ret EXCEPT ![p] = r]
    /\ UNCHANGED <<call, calls>>

Goto(p, label) ==
    /\ pc' = [pc EXCEPT ![p] = label]
    /\ UNCHANGED <<call, ret, calls>>

\* an error thrown inside the operation that reaches the caller
Escapes(p, msg) ==
    /\ pc' = [pc EXCEPT ![p] = "thrown"]
    /\ ret' = [ret EXCEPT ![p] = NoRet]
    /\ UNCHANGED <<call, calls>>

\* the catch block around the body of every operation
Catch(p, msg) == Finish(p, Failure(msg))

----
\* TopicService.saveTopicsForCourse
SaveTopicsForCourse(p) ==
    \E u \in Callers, c \in CourseIds, L \in SaveInputs :
        Invoke(p, "save", u, c, L, 0, None, "verify")

\* TopicService.getTopicsForCourse
GetTopicsForCourse(p) ==
    \E u \in Callers, c \in CourseIds :
        Invoke(p, "get", u, c, <<>>, 0, None, "verify")

\* TopicService.createTopic
CreateTopic(p) ==
    \E u \in Callers, c \in CourseIds, d \in CreateInputs :
        Invoke(p, "create", u, c, <<>>, 0, d, "verify")

\* the verifyCourseOwnership await of save, get and create
VerifyCourse(p) ==
    /\ pc[p] = "verify"
    /\ \E o \in Outcomes :
        IF VerifyCourseOwnership(courses, call[p].user, call[p].course, o)
        THEN Goto(p, CASE call[p].op = "save" -> "sv_delete"
                       [] call[p].op = "get" -> "gt_select"
                       [] OTHER -> "ct_insert")
        ELSE Finish(p, Failure("Course not found or access denied"))
    /\ UNCHANGED <<backend, lastSaved>>

\* save: delete the existing topics of the course
SaveDelete(p) ==
    /\ pc[p] = "sv_delete"
    /\ \E o \in Outcomes :
        CASE o = "ok" ->
                /\ topics' = DeleteTopicsOfCourse(topics, call[p].course)
                /\ lastSaved' = NoSave
                /\ Goto(p, IF Len(TopicsToInsert(call[p].course, call[p].list)) = 0
                           THEN "sv_mark_empty" ELSE "sv_insert")
          [] o = "error" ->
                /\ Finish(p, Failure("Failed to clear existing topics"))
                /\ UNCHANGED <<topics, lastSaved>>
          [] OTHER ->
                /\ Catch(p, "Network error while saving topics")
                /\ UNCHANGED <<topics, lastSaved>>
    /\ UNCHANGED <<courses, nextId>>

\* save of an empty list: mark the course, the result of the update is not read
SaveMarkEmpty(p) ==
    /\ pc[p] = "sv_mark_empty"
    /\ \E o \in Outcomes :
        CASE o = "ok" ->
                /\ courses' = MarkTopicsExtracted(courses, call[p].course)
                /\ lastSaved' = [course |-> call[p].course, list |-> call[p].list]
                /\ Finish(p, Success(<<>>, FALSE))
          [] o = "error" ->
                /\ lastSaved' = [course |-> call[p].course, list |-> call[p].list]
                /\ Finish(p, Success(<<>>, TRUE))
                /\ UNCHANGED courses
          [] OTHER ->
                /\ Catch(p, "Network error while saving topics")
                /\ UNCHANGED <<courses, lastSaved>>
    /\ UNCHANGED <<topics, nextId>>

\* save: insert the new rows
SaveInsert(p) ==
    /\ pc[p] = "sv_insert"
    /\ LET rows == TopicsToInsert(call[p].course, call[p].list)
       IN \E o \in Outcomes :
            CASE o = "ok" /\ ForeignKeyHolds(courses, call[p].course) ->
                    /\ nextId + Len(rows) - 1 <= MaxTopicId
                    /\ topics' = topics \cup Range(WithIds(rows, nextId))
                    /\ nextId' = nextId + Len(rows)
                    /\ call' = [call EXCEPT ![p].data = WithIds(rows, nextId)]
                    /\ pc' = [pc EXCEPT ![p] = "sv_mark"]
                    /\ UNCHANGED <<ret, calls>>
              [] o = "throw" ->
                    /\ Catch(p, "Network error while saving topics")
                    /\ UNCHANGED <<topics, nextId>>
              [] OTHER ->
                    /\ Finish(p, Failure("Failed to save topics"))
                    /\ UNCHANGED <<topics, nextId>>
    /\ UNCHANGED <<courses, lastSaved>>

\* save: mark the course; an update error is logged and the call succeeds
SaveMark(p) ==
    /\ pc[p] = "sv_mark"
    /\ \E o \in Outcomes :
        CASE o = "ok" ->
                /\ courses' = MarkTopicsExtracted(courses, call[p].course)
                /\ lastSaved' = [course |-> call[p].course, list |-> call[p].list]
                /\ Finish(p, Success(call[p].data, FALSE))
          [] o = "error" ->
                /\ lastSaved' = [course |-> call[p].course, list |-> call[p].list]
                /\ Finish(p, Success(call[p].data, TRUE))
                /\ UNCHANGED courses
          [] OTHER ->
                /\ Catch(p, "Network error while saving topics")
                /\ UNCHANGED <<courses, lastSaved>>
    /\ UNCHANGED <<topics, nextId>>

\* get: select the course's topics by ascending orderIndex
GetSelect(p) ==
    /\ pc[p] = "gt_select"
    /\ \E o \in Outcomes :
        CASE o = "ok" ->
                \E s \in SelectTopics(topics, call[p].course) :
                    Finish(p, Success(s, FALSE))
          [] o = "error" -> Finish(p, Failure("Failed to fetch topics"))
          [] OTHER -> Catch(p, "Network error while fetching topics")
    /\ UNCHANGED <<backend, lastSaved>>

\* create: insert one row
CreateInsert(p) ==
    /\ pc[p] = "ct_insert"
    /\ LET rows == << Merge([courseId |-> call[p].course, title |-> <<>>,
                             content |-> <<>>, orderIndex |-> 0], call[p].data) >>
       IN \E o \in Outcomes :
            CASE o = "ok" /\ ForeignKeyHolds(courses, call[p].course) ->
                    /\ nextId <= MaxTopicId
                    /\ topics' = topics \cup Range(WithIds(rows, nextId))
                    /\ lastSaved' = NoSave
                    /\ nextId' = nextId + 1
                    /\ Finish(p, Success(WithIds(rows, nextId)[1], FALSE))
              [] o = "throw" ->
                    /\ Catch(p, "Network error while creating topic")
                    /\ UNCHANGED <<topics, nextId, lastSaved>>
              [] OTHER ->
                    /\ Finish(p, Failure("Failed to create topic"))
                    /\ UNCHANGED <<topics, nextId, lastSaved>>
    /\ UNCHANGED courses

----
\* TopicService.updateTopic
UpdateTopic(p) ==
    \E u \in Callers, tid \in 1..(nextId - 1), d \in UpdateInputs :
        Invoke(p, "update", u, NoCourse, <<>>, tid, d, "verify_topic")

\* TopicService.deleteTopic
DeleteTopic(p) ==
    \E u \in Callers, tid \in 1..(nextId - 1) :
        Invoke(p, "delete", u, NoCourse, <<>>, tid, None, "verify_topic")

\* the topic-with-course lookup of update and delete
VerifyTopic(p) ==
    /\ pc[p] = "verify_topic"
    /\ \E o \in Outcomes :
        CASE o = "throw" ->
                Catch(p, IF call[p].op = "update"
                         THEN "Network error while updating topic"
                         ELSE "Network error while deleting topic")
          [] o # "throw" /\ VerifyTopicOwnership(courses, topics, call[p].user,
                                                 call[p].tid, o) ->
                Goto(p, IF call[p].op = "update" THEN "ut_update" ELSE "dt_delete")
          [] OTHER -> Finish(p, Failure("Topic not found or access denied"))
    /\ UNCHANGED <<backend, lastSaved>>

\* update: .update(updates).eq('id', topicId).select().single()
UpdateUpdate(p) ==
    /\ pc[p] = "ut_update"
    /\ \E o \in Outcomes :
        CASE o = "ok" /\ TopicExists(topics, call[p].tid) ->
                LET old == TopicById(topics, call[p].tid)
                    new == Merge(old, call[p].data)
                IN /\ topics' = (topics \ {old}) \cup {new}
                   /\ lastSaved' = NoSave
                   /\ Finish(p, Success(new, FALSE))
          [] o = "throw" ->
                /\ Catch(p, "Network error while updating topic")
                /\ UNCHANGED <<topics, lastSaved>>
          [] OTHER ->
                /\ Finish(p, Failure("Failed to update topic"))
                /\ UNCHANGED <<topics, lastSaved>>
    /\ UNCHANGED <<courses, nextId>>

\* delete: .delete().eq('id', topicId)
DeleteDelete(p) ==
    /\ pc[p] = "dt_delete"
    /\ \E o \in Outcomes :
        CASE o = "ok" ->
                /\ topics' = {t \in topics : t.id # call[p].tid}
                /\ lastSaved' = NoSave
                /\ Finish(p, Success(TRUE, FALSE))
          [] o = "error" ->
                /\ Finish(p, Failure("Failed to delete topic"))
                /\ UNCHANGED <<topics, lastSaved>>
          [] OTHER ->
                /\ Catch(p, "Network error while deleting topic")
                /\ UNCHANGED <<topics, lastSaved>>
    /\ UNCHANGED <<courses, nextId>>

----
\* CourseService.deleteCourse
DeleteCourse(p) ==
    \E u \in Callers, c \in CourseIds :
        Invoke(p, "deleteCourse", u, c, <<>>, 0, None, "dc_delete")

\* deleteCourse: the delete filtered by id and owner; no row count is read
DeleteCourseDelete(p) ==
    /\ pc[p] = "dc_delete"
    /\ \E o \in Outcomes :
        CASE o = "ok" ->
                /\ courses' = DeleteCourseRows(courses, call[p].course, call[p].user)
                /\ topics' = CascadeTopics(topics, courses')
                /\ lastSaved' = NoSave
                /\ Finish(p, Success(TRUE, FALSE))
          [] o = "error" ->
                /\ Finish(p, Failure("Failed to delete course"))
                /\ UNCHANGED <<courses, topics, lastSaved>>
          [] OTHER ->
                /\ Catch(p, "Network error while deleting course")
                /\ UNCHANGED <<courses, topics, lastSaved>>
    /\ UNCHANGED nextId

----
\* the users who call CourseService
CourseCallers == Users \cup {NoUser}

CourseId(n) == "c" \o ToString(n)

\* the course ids a caller can name
KnownCourseIds == CourseIds \cup {CourseId(MaxCourseId)}

\* updates the store's updateCourse(id, updates: Partial<Course>) hands on
CourseUpdateInputs == {[topicsExtracted |-> TRUE], [userId |-> "u2"]}

\* the rows .eq('id', id).eq('userId', userId) selects
OwnCourseRows(C, id, u) == {r \in C : r.id = id /\ r.userId = u}

\* an update that leaves the userId column alone
UpdateCourseRowsKeepOwner(C, id, u, updates) ==
    (C \ OwnCourseRows(C, id, u))
        \cup {[Merge(r, updates) EXCEPT !.userId = r.userId] :
                 r \in OwnCourseRows(C, id, u)}

\* .update(updateData).eq('id', id).eq('userId', userId)
UpdateCourseRows(C, id, u, updates) ==
    (C \ OwnCourseRows(C, id, u))
        \cup {Merge(r, updates) : r \in OwnCourseRows(C, id, u)}

\* CourseService.getCourses
GetCourses(p) ==
    \E u \in CourseCallers :
        Invoke(p, "getCourses", u, NoCourse, <<>>, 0, None, "gc_select")

\* getCourses: the select of the caller's rows (their order is not modelled)
GetCoursesSelect(p) ==
    /\ pc[p] = "gc_select"
    /\ \E o \in Outcomes :
        CASE o = "ok" ->
                Finish(p, Success({r \in courses : r.userId = call[p].user}, FALSE))
          [] o = "error" -> Finish(p, Failure("Failed to fetch courses"))
          [] OTHER -> Catch(p, "Network error while fetching courses")
    /\ UNCHANGED <<backend, nextCourse, lastSaved>>

\* CourseService.createCourse
CreateCourse(p) ==
    /\ nextCourse <= MaxCourseId
    /\ \E u \in CourseCallers :
        Invoke(p, "createCourse", u, NoCourse, <<>>, 0, None, "cc_insert")

\* createCourse: the insert with userId of the caller and topicsExtracted false
CreateCourseInsert(p) ==
    /\ pc[p] = "cc_insert"
    /\ \E o \in Outcomes :
        CASE o = "ok" /\ nextCourse <= MaxCourseId ->
                LET row == Course(CourseId(nextCourse), call[p].user, FALSE)
                IN /\ courses' = courses \cup {row}
                   /\ nextCourse' = nextCourse + 1
                   /\ lastSaved' = NoSave
                   /\ Finish(p, Success(row, FALSE))
          [] o = "throw" ->
                /\ Catch(p, "Network error while creating course")
                /\ UNCHANGED <<courses, nextCourse, lastSaved>>
          [] OTHER ->
                /\ Finish(p, Failure("Failed to create course"))
                /\ UNCHANGED <<courses, nextCourse, lastSaved>>
    /\ UNCHANGED <<topics, nextId>>

\* CourseService.updateCourse
UpdateCourse(p) ==
    \E u \in CourseCallers, c \in KnownCourseIds, updates \in CourseUpdateInputs :
        Invoke(p, "updateCourse", u, c, <<>>, 0, updates, "uc_update")

\* updateCourse: the update filtered by id and owner; .single() gives an
\* error when no row matched
UpdateCourseUpdate(p) ==
    /\ pc[p] = "uc_update"
    /\ \E o \in Outcomes :
        CASE o = "ok" /\ OwnCourseRows(courses, call[p].course, call[p].user) # {} ->
                /\ courses' = UpdateCourseRows(courses, call[p].course,
                                               call[p].user, call[p].data)
                /\ lastSaved' = NoSave
                /\ Finish(p, Success(
                       CHOOSE r \in courses' \ (courses \ OwnCourseRows(
                           courses, call[p].course, call[p].user)) : TRUE, FALSE))
          [] o = "throw" ->
                /\ Catch(p, "Network error while updating course")
                /\ UNCHANGED <<courses, lastSaved>>
          [] OTHER ->
                /\ Finish(p, Failure("Failed to update course"))
                /\ UNCHANGED <<courses, lastSaved>>
    /\ UNCHANGED <<topics, nextId, nextCourse>>

\* the caller has read the response; the client is free for its next call
Return(p) ==
    /\ pc[p] = "done"
    /\ pc' = [pc EXCEPT ![p] = "idle"]
    /\ call' = [call EXCEPT ![p] = NoCall]
    /\ ret' = [ret EXCEPT ![p] = NoRet]
    /\ UNCHANGED <<backend, calls, lastSaved>>

(***************************************************************************)
(* The topic extraction client                                             *)
(*                                                                         *)
(* A text is the sequence of its maximal runs: a run is n characters of    *)
(* one class, "ch" (any non-whitespace character), "sp", "tab", "nl" or    *)
(* "cr". A JSON value of the provider's answer is a tagged pair.           *)
(***************************************************************************)
\* extractTopics rejects a text whose trimmed length is below this
MinSyllabusLength == 50
\* cleanSyllabusText keeps this many characters
MaxSyllabusLength == 8000
\* entries in the topics array of a provider answer
MaxTopics == 2

Run(k, n) == [k |-> k, n |-> n]

IsSpace(k) == k \in {"sp", "tab", "nl", "cr"}

RECURSIVE TextLength(_)
TextLength(t) == IF t = <<>> THEN 0 ELSE Head(t).n + TextLength(Tail(t))

RECURSIVE TrimStart(_)
TrimStart(t) ==
    IF t = <<>> THEN <<>>
    ELSE IF IsSpace(Head(t).k) THEN TrimStart(Tail(t)) ELSE t

RECURSIVE TrimEnd(_)
TrimEnd(t) ==
    IF t = <<>> THEN <<>>
    ELSE IF IsSpace(t[Len(t)].k) THEN TrimEnd(SubSeq(t, 1, Len(t) - 1)) ELSE t

\* a text taken as it is
NoTrim(t) == t

\* String.prototype.trim
TrimText(t) == TrimEnd(TrimStart(t))

RECURSIVE Normalize(_)
\* adjacent runs of one class are one run; empty runs are no runs
Normalize(t) ==
    IF t = <<>> THEN <<>>
    ELSE IF Head(t).n = 0 THEN Normalize(Tail(t))
    ELSE IF Len(t) >= 2 /\ t[2].n = 0
         THEN Normalize(<<Head(t)>> \o SubSeq(t, 3, Len(t)))
    ELSE IF Len(t) >= 2 /\ t[2].k = Head(t).k
         THEN Normalize(<<Run(Head(t).k, Head(t).n + t[2].n)>> \o SubSeq(t, 3, Len(t)))
    ELSE <<Head(t)>> \o Normalize(Tail(t))

\* .replace(/\r\n/g, '\n'): the last \r of a run before a \n goes
ReplaceCrLf(t) ==
    Normalize([i \in 1..Len(t) |->
        IF t[i].k = "cr" /\ i < Len(t) /\ t[i + 1].k = "nl"
        THEN Run("cr", t[i].n - 1) ELSE t[i]])

\* .replace(/\r/g, '\n')
ReplaceCr(t) ==
    Normalize([i \in 1..Len(t) |->
        IF t[i].k = "cr" THEN Run("nl", t[i].n) ELSE t[i]])

\* .replace(/\n{3,}/g, '\n\n')
CollapseNewlines(t) ==
    [i \in 1..Len(t) |->
        IF t[i].k = "nl" /\ t[i].n >= 3 THEN Run("nl", 2) ELSE t[i]]

RECURSIVE CollapseBlanks(_)
\* .replace(/[ \t]+/g, ' ')
CollapseBlanks(t) ==
    IF t = <<>> THEN <<>>
    ELSE IF Head(t).k \in {"sp", "tab"}
         THEN IF Len(t) >= 2 /\ t[2].k \in {"sp", "tab"}
              THEN CollapseBlanks(<<Run("sp", 1)>> \o SubSeq(t, 3, Len(t)))
              ELSE <<Run("sp", 1)>> \o CollapseBlanks(Tail(t))
    ELSE <<Head(t)>> \o CollapseBlanks(Tail(t))

RECURSIVE Substring(_, _)
\* .substring(0, n)
Substring(t, n) ==
    IF t = <<>> \/ n <= 0 THEN <<>>
    ELSE IF Head(t).n >= n THEN <<Run(Head(t).k, n)>>
    ELSE <<Head(t)>> \o Substring(Tail(t), n - Head(t).n)

\* TopicExtractionService.cleanSyllabusText
CleanSyllabusText(t) ==
    Substring(
        TrimText(CollapseBlanks(CollapseNewlines(ReplaceCr(ReplaceCrLf(t))))),
        MaxSyllabusLength)

\* the texts handed to extractTopics
TextInputs ==
    { <<>>,
      << Run("sp", 60) >>,
      << Run("ch", 49) >>,
      << Run("sp", 3), Run("ch", 49), Run("nl", 2) >>,
      << Run("ch", 50) >>,
      << Run("tab", 1), Run("ch", 50), Run("cr", 1), Run("nl", 1) >>,
      << Run("ch", 20), Run("sp", 30), Run("ch", 20) >>,
      << Run("ch", 40), Run("nl", 4), Run("ch", 8000) >> }

\* JSON values: t is the type, v the characters of a string or a number
J(t, v) == [t |-> t, v |-> v]
JStr(v) == J("str", v)
JNum(v) == J("num", v)
JNull == J("null", <<>>)
JUndefined == J("undefined", <<>>)

\* JavaScript truthiness of a JSON value
Truthy(j) ==
    CASE j.t = "str" -> j.v # <<>>
      [] j.t = "num" -> j.v # <<"0">>
      [] OTHER -> FALSE

\* an entry of the topics array: an object with a title and keywords, or null;
\* kwKind is "arr" for an array of kw, "str" for a string, "undefined" if absent
Entry(title, kwKind, kw) ==
    [obj |-> TRUE, title |-> title, kwKind |-> kwKind, kw |-> kw]

NullEntry == [obj |-> FALSE, title |-> JUndefined, kwKind |-> "undefined", kw |-> <<>>]

EntryInputs ==
    { Entry(JStr(X), "undefined", <<>>),
      Entry(JStr(<<" ", "Y", " ">>), "arr",
            << JStr(<<"a">>), JNum(<<"2">>), JStr(<<"b">>), JNull >>),
      Entry(JStr(X), "arr", <<>>),
      Entry(JStr(Y), "arr", << JNum(<<"2">>), JNull >>),
      Entry(JStr(Y), "str", << JStr(<<"a">>) >>),
      Entry(JStr(<<>>), "undefined", <<>>),
      Entry(JUndefined, "arr", << JStr(<<"a">>) >>),
      Entry(JNull, "undefined", <<>>),
      Entry(JStr(<<" ">>), "undefined", <<>>),
      Entry(JNum(<<"5">>), "undefined", <<>>),
      NullEntry }

\* what the fetch of the provider comes back with
Response(kind, status, msg, entries) ==
    [kind |-> kind, status |-> status, msg |-> msg, entries |-> entries]

NoResponse == Response("none", 0, <<>>, <<>>)

RECURSIVE SeqsUpTo(_, _)
\* the sequences over S of length at most n
SeqsUpTo(S, n) ==
    IF n = 0 THEN {<<>>}
    ELSE LET shorter == SeqsUpTo(S, n - 1)
         IN shorter \cup {Append(q, e) : q \in shorter, e \in S}

\* kind "reject": fetch rejects with the message; "http": a non-2xx status
\* with the provider's error message (<<>> when the body has none);
\* "nocontent", "badjson", "notopics": a 2xx answer without usable content;
\* "topics": a 2xx answer whose content parses to {"topics": entries}
ResponseInputs ==
    { Response("reject", 0, <<"Network", "request", "failed">>, <<>>),
      Response("reject", 0, <<"rate", "limit", "exceeded">>, <<>>),
      Response("reject", 0, <<"add", "billing", "details", "to", "raise",
                              "your", "rate", "limit">>, <<>>),
      Response("reject", 0, <<"quota", "of", "this", "API", "key", "used", "up">>, <<>>),
      Response("reject", 0, <<"timeout">>, <<>>),
      Response("http", 429, <<"Rate", "limit", "reached">>, <<>>),
      Response("http", 429, <<"You", "exceeded", "your", "current", "quota">>, <<>>),
      Response("http", 401, <<"Incorrect", "API", "key", "provided">>, <<>>),
      Response("http", 500, <<>>, <<>>),
      Response("nocontent", 200, <<>>, <<>>),
      Response("badjson", 200, <<>>, <<>>),
      Response("notopics", 200, <<>>, <<>>) }
    \cup {Response("topics", 200, <<>>, es) : es \in SeqsUpTo(EntryInputs, MaxTopics)}

\* whitespace characters String.prototype.trim removes
SpaceChars == {" ", "\t", "\n", "\r"}

RECURSIVE TrimChars(_)
\* title.trim() on a sequence of characters
TrimChars(s) ==
    IF s = <<>> THEN <<>>
    ELSE IF Head(s) \in SpaceChars THEN TrimChars(Tail(s))
    ELSE IF s[Len(s)] \in SpaceChars THEN TrimChars(SubSeq(s, 1, Len(s) - 1))
    ELSE s

\* the id template with the index as it is
TopicIdZeroBased(index) == "topic-" \o ToString(index)

\* `topic-${index + 1}` for the 0-based index of Array.prototype.map
TopicId(index) == "topic-" \o ToString(index + 1)

\* the title check that only catches an absent title
TitleAbsent(e) == e.title.t \in {"undefined", "null"}

\* !topic.title
TitleMissing(e) == ~Truthy(e.title)

\* a filter on truthiness
KeepTruthy(k) == Truthy(k)

\* typeof k === 'string'
KeepKeyword(k) == k.t = "str"

RECURSIVE FilterKeywords(_)
\* topic.keywords.filter(k => typeof k === 'string')
FilterKeywords(kw) ==
    IF kw = <<>> THEN <<>>
    ELSE IF KeepKeyword(Head(kw)) THEN <<Head(kw).v>> \o FilterKeywords(Tail(kw))
    ELSE FilterKeywords(Tail(kw))

\* keywords that are left out when no string is among them
KeywordsDroppedIfEmpty(e) ==
    IF e.kwKind = "arr" /\ FilterKeywords(e.kw) # <<>>
    THEN Kw(FilterKeywords(e.kw)) ELSE NoKeywords

\* Array.isArray(topic.keywords) ? topic.keywords.filter(...) : undefined
KeywordsOf(e) ==
    IF e.kwKind = "arr" THEN Kw(FilterKeywords(e.kw)) ELSE NoKeywords

\* an entry the map callback throws on: null, no title, or a title without trim
EntryThrows(e) == ~e.obj \/ TitleMissing(e) \/ e.title.t # "str"

\* the message of the error the map callback throws on entry i (1-based)
EntryError(e, i) ==
    IF ~e.obj
    THEN <<"Cannot", "read", "properties", "of", "null">>
    ELSE IF TitleMissing(e)
    THEN <<"Topic", ToString(i), "missing", "title">>
    ELSE <<"topic.title.trim", "is", "not", "a", "function">>

Parsed(topicList) == [ok |-> TRUE, topics |-> topicList, message |-> <<>>]

\* the catch of parseOpenAIResponse rethrows with a prefix
ParseFailure(message) ==
    [ok |-> FALSE, topics |-> <<>>,
     message |-> <<"Failed", "to", "parse", "AI", "response:">> \o message]

\* TopicExtractionService.parseOpenAIResponse, on a 2xx answer
ParseOpenAIResponse(resp) ==
    CASE resp.kind = "nocontent" ->
            ParseFailure(<<"No", "content", "in", "OpenAI", "response">>)
      [] resp.kind = "badjson" ->
            ParseFailure(<<"Unexpected", "token">>)
      [] resp.kind = "notopics" ->
            ParseFailure(<<"Invalid", "response", "format:", "topics", "array",
                           "not", "found">>)
      [] OTHER ->
            LET es == resp.entries
                bad == {i \in 1..Len(es) : EntryThrows(es[i])}
                first == CHOOSE i \in bad : \A j \in bad : i <= j
            IN IF bad # {} THEN ParseFailure(EntryError(es[first], first))
               ELSE IF Len(es) = 0
               THEN ParseFailure(<<"No", "valid", "topics", "extracted">>)
               ELSE Parsed([i \in 1..Len(es) |->
                        ET(TopicId(i - 1), TrimChars(es[i].title.v), i,
                           KeywordsOf(es[i]))])

\* message.includes(pattern), on words
Includes(message, pattern) ==
    \E i \in 1..(Len(message) - Len(pattern) + 1) :
        SubSeq(message, i, i + Len(pattern) - 1) = pattern

\* the classification with the rate-limit test ahead of the quota test
GetErrorMessageRateLimitFirst(message) ==
    IF Includes(message, <<"API", "key">>)
    THEN <<"OpenAI", "API", "key", "is", "invalid", "or", "missing.">>
    ELSE IF Includes(message, <<"rate", "limit">>)
    THEN <<"Too", "many", "requests.">>
    ELSE IF Includes(message, <<"quota">>) \/ Includes(message, <<"billing">>)
    THEN <<"OpenAI", "API", "quota", "exceeded.">>
    ELSE IF Includes(message, <<"network">>) \/ Includes(message, <<"fetch">>)
    THEN <<"Network", "error.">>
    ELSE <<"Topic", "extraction", "failed:">> \o message

\* TopicExtractionService.getErrorMessage
GetErrorMessage(message) ==
    IF Includes(message, <<"API", "key">>)
    THEN <<"OpenAI", "API", "key", "is", "invalid", "or", "missing.">>
    ELSE IF Includes(message, <<"quota">>) \/ Includes(message, <<"billing">>)
    THEN <<"OpenAI", "API", "quota", "exceeded.">>
    ELSE IF Includes(message, <<"rate", "limit">>)
    THEN <<"Too", "many", "requests.">>
    ELSE IF Includes(message, <<"network">>) \/ Includes(message, <<"fetch">>)
    THEN <<"Network", "error.">>
    ELSE <<"Topic", "extraction", "failed:">> \o message

\* TopicExtractionService.calculateConfidence, as the fraction num / den
CalculateConfidence(topicList) ==
    LET n == Len(topicList)
        withKeywords == Cardinality({i \in 1..n :
            topicList[i].keywords.present /\ Len(topicList[i].keywords.list) > 0})
        base == (IF n > 0 THEN 40 ELSE 0) + (IF n >= 5 /\ n <= 15 THEN 30 ELSE 0)
        num == base * n + withKeywords * 30
    IN IF num > 100 * n THEN [num |-> 100, den |-> 1] ELSE [num |-> num, den |-> n]

NoMetadata == [totalTopics |-> 0, confidence |-> [num |-> 0, den |-> 1]]

NoResult == [success |-> FALSE, topics |-> <<>>, error |-> <<>>, metadata |-> NoMetadata]

ExtractionFailure(userMessage) ==
    [success |-> FALSE, topics |-> <<>>, error |-> userMessage, metadata |-> NoMetadata]

ExtractionSuccess(topicList) ==
    [success |-> TRUE, topics |-> topicList, error |-> <<>>,
     metadata |-> [totalTopics |-> Len(topicList),
                   confidence |-> CalculateConfidence(topicList)]]

ExtractionInit ==
    /\ apiKey = ""
    /\ xpc = "idle"
    /\ xtext = <<>>
    /\ xreq = <<>>
    /\ xresp = NoResponse
    /\ xres = NoResult
    /\ requests = 0

\* TopicExtractionService.initialize
Initialize ==
    /\ \E key \in {"", "sk-test"} : apiKey' = key
    /\ UNCHANGED <<xpc, xtext, xreq, xresp, xres, requests>>

\* extractTopics up to its first await: the two input checks, then the fetch
ExtractTopicsOf(text) ==
    /\ xpc = "idle"
    /\ xtext' = text
    /\ IF apiKey = ""
       THEN /\ xres' = ExtractionFailure(<<"OpenAI", "API", "key", "not",
                                           "configured">>)
            /\ xpc' = "done"
            /\ UNCHANGED <<xreq, requests>>
       ELSE IF text = <<>> \/ TextLength(TrimText(text)) < MinSyllabusLength
       THEN /\ xres' = ExtractionFailure(<<"Syllabus", "text", "is", "too",
                                           "short.">>)
            /\ xpc' = "done"
            /\ UNCHANGED <<xreq, requests>>
       ELSE /\ xreq' = CleanSyllabusText(text)
            /\ requests' = requests + 1
            /\ xpc' = "fetching"
            /\ UNCHANGED xres
    /\ UNCHANGED <<apiKey, xresp>>

\* an extractTopics call on any of the texts
ExtractTopics == \E text \in TextInputs : ExtractTopicsOf(text)

\* extractTopics from the answer resp of the fetch to its return
FetchAnswered(resp) ==
    /\ xpc = "fetching"
    /\ xresp' = resp
    /\ xres' =
        CASE resp.kind = "reject" ->
                ExtractionFailure(GetErrorMessage(resp.msg))
          [] resp.kind = "http" ->
                ExtractionFailure(GetErrorMessage(
                    <<"OpenAI", "API", "error:", ToString(resp.status), "-">>
                    \o (IF resp.msg # <<>> THEN resp.msg
                        ELSE <<"Unknown", "error">>)))
          [] OTHER ->
                LET parsed == ParseOpenAIResponse(resp)
                IN IF parsed.ok THEN ExtractionSuccess(parsed.topics)
                   ELSE ExtractionFailure(GetErrorMessage(parsed.message))
    /\ xpc' = "done"
    /\ UNCHANGED <<apiKey, xtext, xreq, requests>>

\* an extractTopics that sends the request once more after a failed fetch
FetchSettlesWithRetry ==
    /\ xpc = "fetching"
    /\ \E resp \in ResponseInputs :
        /\ xresp' = resp
        /\ IF resp.kind \in {"reject", "http"} /\ requests < 2
           THEN /\ requests' = requests + 1
                /\ xpc' = "fetching"
                /\ UNCHANGED xres
           ELSE /\ xres' = IF resp.kind \in {"reject", "http"}
                           THEN ExtractionFailure(GetErrorMessage(resp.msg))
                           ELSE LET parsed == ParseOpenAIResponse(resp)
                                IN IF parsed.ok THEN ExtractionSuccess(parsed.topics)
                                   ELSE ExtractionFailure(
                                            GetErrorMessage(parsed.message))
                /\ xpc' = "done"
                /\ UNCHANGED requests
    /\ UNCHANGED <<apiKey, xtext, xreq>>

\* the fetch comes back with any of the answers
FetchSettles == \E resp \in ResponseInputs : FetchAnswered(resp)

\* the caller has the response; the next call starts from scratch
ExtractReturn ==
    /\ xpc = "done"
    /\ xpc' = "idle"
    /\ xtext' = <<>>
    /\ xreq' = <<>>
    /\ xresp' = NoResponse
    /\ xres' = NoResult
    /\ requests' = 0
    /\ UNCHANGED apiKey

(***************************************************************************)
(* The two text-cleaning transforms, applied to a text and to their result *)
(*                                                                         *)
(* Besides the classes of the extraction client's texts a run can be "np": *)
(* characters outside \x20-\x7E that are not whitespace (a control         *)
(* character, an accented letter, a dash or bullet of a typeset document). *)
(***************************************************************************)
\* cleanExtractedText keeps this many characters
MaxExtractedLength == 10000
\* runs in a short text handed to a cleaning transform
MaxRuns == 3

\* .replace(/[^\x20-\x7E\n]/g, ''), on a text without \r and \t
StripNonPrintable(t) ==
    Normalize([i \in 1..Len(t) |->
        IF t[i].k \in {"np", "cr", "tab"} THEN Run(t[i].k, 0) ELSE t[i]])

\* FileReaderService.cleanExtractedText
CleanExtractedText(t) ==
    IF t = <<>> THEN <<>>
    ELSE Substring(
            StripNonPrintable(
                TrimText(CollapseBlanks(CollapseNewlines(ReplaceCr(ReplaceCrLf(t)))))),
            MaxExtractedLength)

RunInputs ==
    { Run("ch", 1), Run("sp", 1), Run("sp", 2), Run("tab", 1),
      Run("nl", 1), Run("nl", 3), Run("cr", 1), Run("np", 1) }

\* short texts of every shape, and texts about as long as the two cuts
CleanInputs ==
    {Normalize(t) : t \in SeqsUpTo(RunInputs, MaxRuns)}
    \cup { << Run("ch", 8000) >>,
           << Run("ch", 7999), Run("sp", 1), Run("ch", 5) >>,
           << Run("ch", 7998), Run("nl", 2), Run("ch", 5) >>,
           << Run("ch", 10000), Run("sp", 1) >>,
           << Run("ch", 9999), Run("nl", 1), Run("ch", 5) >>,
           << Run("ch", 12000) >> }

CleaningInit ==
    /\ cin = <<>>
    /\ cfn = "none"
    /\ cout = <<>>

\* a text to clean is at hand
CleaningInputs ==
    /\ cin \in CleanInputs
    /\ cfn = "none"
    /\ cout = <<>>

\* the text, or the result of the first application
CleanArgument == IF cout = <<>> THEN cin ELSE cout[Len(cout)]

ApplyCleanSyllabusText ==
    /\ Len(cout) < 2
    /\ cfn \in {"none", "cleanSyllabusText"}
    /\ cfn' = "cleanSyllabusText"
    /\ cout' = Append(cout, CleanSyllabusText(CleanArgument))
    /\ UNCHANGED cin

ApplyCleanExtractedText ==
    /\ Len(cout) < 2
    /\ cfn \in {"none", "cleanExtractedText"}
    /\ cfn' = "cleanExtractedText"
    /\ cout' = Append(cout, CleanExtractedText(CleanArgument))
    /\ UNCHANGED cin

(***************************************************************************)
(* The file reader                                                         *)
(*                                                                         *)
(* A MIME type and a file name are sequences of pieces, cut where the      *)
(* patterns the code looks for begin and end.                              *)
(***************************************************************************)
\* validateFile's maxSize, 50 * 1024 * 1024
MaxFileSize == 52428800
\* readFileText rejects a cleaned text shorter than this
MinExtractedLength == 50

PdfType == <<"application/", "pdf">>
DocType == <<"application/", "ms", "word">>
DocxType ==
    <<"application/", "vnd.openxmlformats-office", "document", ".", "word",
      "processingml.", "document">>

FileInfo(type, name, size) == [type |-> type, name |-> name, size |-> size]

NoFile == FileInfo(<<>>, <<>>, 0)

FileTypeInputs ==
    { PdfType, DocType, DocxType,
      <<"application/", "x-", "pdf">>,
      <<"text/", "plain">>,
      <<"image/", "png">>,
      <<>> }

FileNameInputs ==
    { <<"syllabus", ".pdf">>, <<"notes", ".doc">>, <<"notes", ".docx">>,
      <<"notes", ".txt">>, <<"scan", ".png">>, <<"syllabus", ".pdf", ".bak">> }

FileSizeInputs == {512000, MaxFileSize, MaxFileSize + 1}

\* name.endsWith(suffix)
EndsWith(name, suffix) == name # <<>> /\ name[Len(name)] = suffix

\* validateFile without its size limit
ValidateFileNoSizeLimit(f) ==
    IF \/ \E type \in {PdfType, DocType, DocxType} : Includes(f.type, type)
       \/ EndsWith(f.name, ".pdf")
       \/ EndsWith(f.name, ".doc")
       \/ EndsWith(f.name, ".docx")
    THEN [isValid |-> TRUE, error |-> None]
    ELSE [isValid |-> FALSE, error |-> "Unsupported file type."]

\* FileReaderService.validateFile
ValidateFile(f) ==
    IF f.size > MaxFileSize
    THEN [isValid |-> FALSE, error |-> "File size exceeds 50MB limit."]
    ELSE IF \/ \E type \in {PdfType, DocType, DocxType} : Includes(f.type, type)
            \/ EndsWith(f.name, ".pdf")
            \/ EndsWith(f.name, ".doc")
            \/ EndsWith(f.name, ".docx")
    THEN [isValid |-> TRUE, error |-> None]
    ELSE [isValid |-> FALSE, error |-> "Unsupported file type."]

\* the extractor readFileText hands the file to, "none" if to neither
Extractor(f) ==
    IF Includes(f.type, <<"pdf">>) THEN "pdf"
    ELSE IF \/ Includes(f.type, <<"word">>)
            \/ Includes(f.type, <<"document">>)
            \/ EndsWith(f.name, ".docx")
    THEN "word"
    ELSE "none"

\* getMockPDFContent, getMockWordContent: the sample texts in short, lines
\* of words indented by two blanks, with blank lines between the sections
MockPDFContent ==
    << Run("ch", 42), Run("nl", 1), Run("sp", 2), Run("ch", 25), Run("nl", 2),
       Run("sp", 2), Run("ch", 2700) >>

MockWordContent ==
    << Run("ch", 22), Run("nl", 1), Run("sp", 2), Run("ch", 30), Run("nl", 2),
       Run("sp", 2), Run("ch", 3300) >>

NoFileResult == [success |-> FALSE, text |-> <<>>, error |-> None]

FileFailure(message) == [success |-> FALSE, text |-> <<>>, error |-> message]

FileSuccess(text) == [success |-> TRUE, text |-> text, error |-> None]

ReaderInit ==
    /\ fpc = "idle"
    /\ file = NoFile
    /\ fres = NoFileResult
    /\ extractions = 0

\* readFileText up to its first await: validation, then the choice of the
\* extractor
ReadFileText ==
    /\ fpc = "idle"
    /\ \E type \in FileTypeInputs, name \in FileNameInputs, size \in FileSizeInputs :
        LET f == FileInfo(type, name, size)
        IN /\ file' = f
           /\ IF ~ValidateFile(f).isValid
              THEN /\ fres' = FileFailure(ValidateFile(f).error)
                   /\ fpc' = "done"
                   /\ UNCHANGED extractions
              ELSE IF Extractor(f) = "none"
              THEN /\ fres' = FileFailure("Unsupported file type")
                   /\ fpc' = "done"
                   /\ UNCHANGED extractions
              ELSE /\ fpc' = "extracting"
                   /\ extractions' = extractions + 1
                   /\ UNCHANGED fres

\* readFileText from the extractor's text to its return
ExtractionSettles ==
    /\ fpc = "extracting"
    /\ LET extractedText == IF Extractor(file) = "pdf" THEN MockPDFContent
                            ELSE MockWordContent
           cleanedText == CleanExtractedText(extractedText)
       IN fres' = IF cleanedText = <<>> \/ TextLength(cleanedText) < MinExtractedLength
                  THEN FileFailure("Could not extract meaningful text from the file.")
                  ELSE FileSuccess(cleanedText)
    /\ fpc' = "done"
    /\ UNCHANGED <<file, extractions>>

\* the caller has the result; the next call starts from scratch
FileReturn ==
    /\ fpc = "done"
    /\ fpc' = "idle"
    /\ file' = NoFile
    /\ fres' = NoFileResult
    /\ extractions' = 0

(***************************************************************************)
(* The course store                                                        *)
(*                                                                         *)
(* The clients are the asynchronous calls of one app that are under way    *)
(* at the same time; they share the store. A store action sets the loading *)
(* flag, awaits the service call of its client, and applies the response.  *)
(***************************************************************************)
RECURSIVE SeqOf(_)
\* the rows of a select as a list (the order by createdAt is not modelled)
SeqOf(S) ==
    IF S = {} THEN <<>>
    ELSE LET r == CHOOSE r \in S : TRUE IN <<r>> \o SeqOf(S \ {r})

NoSelection == Course(NoCourse, NoUser, FALSE)

TopicStoreInit ==
    /\ sSelected = NoSelection
    /\ sTopics = <<>>
    /\ sLoadingTopics = FALSE
    /\ sTopicError = None
    /\ sRequested = NoCourse

StoreInit ==
    /\ TopicStoreInit
    /\ sCourses = <<>>
    /\ sLoading = FALSE
    /\ sError = None
    /\ sBefore = [p \in Clients |-> 0]

\* set({ isLoading: true, error: null }) at the start of a store action
StoreBegins(p) ==
    /\ sLoading' = TRUE
    /\ sError' = None
    /\ sBefore' = [sBefore EXCEPT ![p] = Len(sCourses)]
    /\ UNCHANGED <<sCourses, topicStore>>

\* the awaited service call of client p has resolved with its response
Resolved(p, op) == pc[p] = "done" /\ call[p].op = op

\* useCourseStore.fetchCourses up to its await
StoreFetchCourses(p) ==
    /\ GetCourses(p)
    /\ call'[p].user \in Callers
    /\ StoreBegins(p)

\* fetchCourses from the response on
StoreFetchCoursesResolves(p) ==
    /\ Resolved(p, "getCourses")
    /\ IF ret[p].success
       THEN /\ sCourses' = SeqOf(ret[p].data)
            /\ sError' = None
       ELSE /\ sCourses' = <<>>
            /\ sError' = ret[p].error
    /\ sLoading' = FALSE
    /\ UNCHANGED <<sBefore, topicStore>>
    /\ Return(p)

\* useCourseStore.createCourse up to its await
StoreCreateCourse(p) ==
    /\ CreateCourse(p)
    /\ call'[p].user \in Callers
    /\ StoreBegins(p)

\* a createCourse that puts the response's list in place of the store's
StoreCreateCourseReplaces(p) ==
    /\ Resolved(p, "createCourse")
    /\ IF ret[p].success
       THEN /\ sCourses' = <<ret[p].data>>
            /\ sError' = None
       ELSE /\ sError' = ret[p].error
            /\ UNCHANGED sCourses
    /\ sLoading' = FALSE
    /\ UNCHANGED <<sBefore, topicStore>>
    /\ Return(p)

\* createCourse from the response on: [response.data, ...get().courses]
StoreCreateCourseResolves(p) ==
    /\ Resolved(p, "createCourse")
    /\ IF ret[p].success
       THEN /\ sCourses' = <<ret[p].data>> \o sCourses
            /\ sError' = None
       ELSE /\ sError' = ret[p].error
            /\ UNCHANGED sCourses
    /\ sLoading' = FALSE
    /\ UNCHANGED <<sBefore, topicStore>>
    /\ Return(p)

\* useCourseStore.deleteCourse(id) up to its await
StoreDeleteCourse(p, id) ==
    /\ DeleteCourse(p)
    /\ call'[p].user \in Callers
    /\ call'[p].course = id
    /\ StoreBegins(p)

\* deleteCourse from the response on: the course leaves the list
StoreDeleteCourseResolves(p) ==
    /\ Resolved(p, "deleteCourse")
    /\ IF ret[p].success
       THEN /\ sCourses' = SelectSeq(sCourses, LAMBDA k : k.id # call[p].course)
            /\ sSelected' = IF sSelected.id = call[p].course THEN NoSelection
                             ELSE sSelected
            /\ sTopics' = SelectSeq(sTopics, LAMBDA t : t.courseId # call[p].course)
            /\ sError' = None
       ELSE /\ sError' = ret[p].error
            /\ UNCHANGED <<sCourses, sSelected, sTopics>>
    /\ sLoading' = FALSE
    /\ UNCHANGED <<sBefore, sLoadingTopics, sTopicError, sRequested>>
    /\ Return(p)

\* useCourseStore.updateCourse(id, updates) up to its await
StoreUpdateCourse(p, id) ==
    /\ UpdateCourse(p)
    /\ call'[p].user \in Callers
    /\ call'[p].course = id
    /\ StoreBegins(p)

\* an updateCourse that drops the course from the list when it fails
StoreUpdateCourseDropsOnFailure(p) ==
    /\ Resolved(p, "updateCourse")
    /\ IF ret[p].success
       THEN /\ sCourses' = [i \in 1..Len(sCourses) |->
                               IF sCourses[i].id = call[p].course THEN ret[p].data
                               ELSE sCourses[i]]
            /\ sSelected' = IF sSelected.id = call[p].course THEN ret[p].data
                             ELSE sSelected
            /\ sError' = None
       ELSE /\ sError' = ret[p].error
            /\ sCourses' = SelectSeq(sCourses, LAMBDA k : k.id # call[p].course)
            /\ UNCHANGED sSelected
    /\ sLoading' = FALSE
    /\ UNCHANGED <<sBefore, sTopics, sLoadingTopics, sTopicError, sRequested>>
    /\ Return(p)

\* updateCourse from the response on: the course is replaced in the list
\* and in the selection
StoreUpdateCourseResolves(p) ==
    /\ Resolved(p, "updateCourse")
    /\ IF ret[p].success
       THEN /\ sCourses' = [i \in 1..Len(sCourses) |->
                               IF sCourses[i].id = call[p].course THEN ret[p].data
                               ELSE sCourses[i]]
            /\ sSelected' = IF sSelected.id = call[p].course THEN ret[p].data
                             ELSE sSelected
            /\ sError' = None
       ELSE /\ sError' = ret[p].error
            /\ UNCHANGED <<sCourses, sSelected>>
    /\ sLoading' = FALSE
    /\ UNCHANGED <<sBefore, sTopics, sLoadingTopics, sTopicError, sRequested>>
    /\ Return(p)

\* useCourseStore.setSelectedCourse, with a course of the list
SetSelectedCourse(i) ==
    /\ sSelected' = sCourses[i]
    /\ UNCHANGED <<sTopics, sLoadingTopics, sTopicError, sRequested>>

\* useCourseStore.fetchTopicsForCourse(courseId) up to its await
StoreFetchTopicsForCourse(p, id) ==
    /\ GetTopicsForCourse(p)
    /\ call'[p].user \in Callers
    /\ call'[p].course = id
    /\ sLoadingTopics' = TRUE
    /\ sTopicError' = None
    /\ sRequested' = id
    /\ UNCHANGED <<sSelected, sTopics>>

\* fetchTopicsForCourse from the response on
StoreFetchTopicsResolves(p) ==
    /\ Resolved(p, "get")
    /\ IF ret[p].success
       THEN sTopics' = ret[p].data /\ sTopicError' = None
       ELSE sTopics' = <<>> /\ sTopicError' = ret[p].error
    /\ sLoadingTopics' = FALSE
    /\ UNCHANGED <<sSelected, sRequested>>
    /\ Return(p)

(***************************************************************************)
(* The courses list screen                                                 *)
(***************************************************************************)
ScreenInit == mounted = FALSE

\* the screen comes on display: its effect fetches the courses
ListMounts(p) ==
    /\ ~mounted
    /\ mounted' = TRUE
    /\ StoreFetchCourses(p)

\* pull to refresh; the list's refresh control is busy while isLoading
ListRefreshes(p) ==
    /\ mounted
    /\ ~sLoading
    /\ StoreFetchCourses(p)
    /\ UNCHANGED mounted

\* the delete button of a listed course, and Delete in the alert
ListDeletes(p) ==
    /\ mounted
    /\ \E i \in 1..Len(sCourses) : StoreDeleteCourse(p, sCourses[i].id)
    /\ UNCHANGED mounted

(***************************************************************************)
(* The add-content flow: AddContentScreen, then ReviewTopicsScreen under   *)
(* its wrapper, then the course detail. An alert is modal: while one is    *)
(* open only its buttons act.                                              *)
(***************************************************************************)
\* topics the review list may hold
MaxReview == 2
\* the milliseconds that pass while the review screen is open
MaxMs == 1
\* Date.now() when the review screen opens
FirstMs == 1000

NoAlert == [kind |-> "none", id |-> ""]
AlertOf(kind) == [kind |-> kind, id |-> ""]
AlertAbout(kind, id) == [kind |-> kind, id |-> id]

\* what the user types into the title field
TitleInputs == { <<>>, <<" ">>, <<" ", "Z">> }

\* the entries of the provider's answers in the flow
FlowEntryInputs ==
    { Entry(JStr(X), "undefined", <<>>),
      Entry(JStr(<<" ", "Y", " ">>), "arr",
            << JStr(<<"a">>), JNum(<<"2">>), JStr(<<"b">>), JNull >>),
      Entry(JStr(<<" ">>), "undefined", <<>>),
      NullEntry }

\* the answers of the provider in the flow
FlowResponses ==
    { Response("reject", 0, <<"Network", "request", "failed">>, <<>>),
      Response("http", 500, <<>>, <<>>),
      Response("nocontent", 200, <<>>, <<>>) }
    \cup {Response("topics", 200, <<>>, es) : es \in SeqsUpTo(FlowEntryInputs, MaxTopics)}

\* the review screen is left: its state is gone
CloseReview(route) ==
    /\ nav' = route
    /\ initialTopics' = <<>>
    /\ rTopics' = <<>>
    /\ editingId' = ""
    /\ editingTitle' = <<>>

FlowInit ==
    /\ nav = "addContent"
    /\ alert = NoAlert
    /\ selectedFile = FALSE
    /\ processingStep = "idle"
    /\ initialTopics = <<>>
    /\ rTopics = <<>>
    /\ editingId = ""
    /\ editingTitle = <<>>
    /\ ms = FirstMs
    /\ saving = FALSE
    /\ savedList = <<>>
    /\ events = {}

\* processingStep === 'reading' || processingStep === 'extracting'
IsProcessing == processingStep \in {"reading", "extracting"}

\* the user can act on the add-content screen
OnAddContent == nav = "addContent" /\ alert = NoAlert

\* the user can act on the review screen
OnReview == nav = "review" /\ alert = NoAlert

\* navigation.navigate('ReviewTopics', { course, topics }): a screen with
\* its state as new
OpenReview(topicList) ==
    /\ nav' = "review"
    /\ initialTopics' = topicList
    /\ rTopics' = topicList
    /\ editingId' = ""
    /\ editingTitle' = <<>>

\* AddContentScreen.handleFileSelected (the picker is disabled while processing)
HandleFileSelected ==
    /\ OnAddContent
    /\ ~IsProcessing
    /\ selectedFile' = TRUE
    /\ processingStep' = "idle"
    /\ UNCHANGED <<nav, alert, initialTopics, rTopics, editingId, editingTitle,
                   ms, saving, savedList, events>>

\* processSyllabus up to its first await; its button shows only while idle
ProcessSyllabus ==
    /\ OnAddContent
    /\ selectedFile
    /\ processingStep = "idle"
    /\ processingStep' = "reading"
    /\ ReadFileText
    /\ UNCHANGED <<nav, alert, selectedFile, initialTopics, rTopics, editingId,
                   editingTitle, ms, saving, savedList, events>>

\* a processSyllabus that hands whatever the reader returned to the extraction
ReadReturnsUnchecked ==
    /\ processingStep = "reading"
    /\ fpc = "done"
    /\ FileReturn
    /\ processingStep' = "extracting"
    /\ ExtractTopicsOf(fres.text)
    /\ UNCHANGED <<nav, alert, selectedFile, initialTopics, rTopics, editingId,
                   editingTitle, ms, saving, savedList, events>>

\* processSyllabus from the result of readFileText to its second await, or
\* to its catch
ReadReturns ==
    /\ processingStep = "reading"
    /\ fpc = "done"
    /\ FileReturn
    /\ IF ~fres.success \/ fres.text = <<>>
       THEN /\ processingStep' = "idle"
            /\ events' = events \cup {"readFailed"}
            /\ UNCHANGED extraction
       ELSE /\ processingStep' = "extracting"
            /\ ExtractTopicsOf(fres.text)
            /\ UNCHANGED events
    /\ UNCHANGED <<nav, alert, selectedFile, initialTopics, rTopics, editingId,
                   editingTitle, ms, saving, savedList>>

\* processSyllabus from the result of extractTopics on: the success alert,
\* or the catch
ExtractionReturns ==
    /\ processingStep = "extracting"
    /\ xpc = "done"
    /\ IF ~xres.success
       THEN /\ processingStep' = "idle"
            /\ events' = events \cup {"extractFailed"}
            /\ ExtractReturn
            /\ UNCHANGED alert
       ELSE /\ processingStep' = "complete"
            /\ alert' = AlertOf("success")
            /\ UNCHANGED <<events, extraction>>
    /\ UNCHANGED <<nav, selectedFile, initialTopics, rTopics, editingId,
                   editingTitle, ms, saving, savedList>>

\* 'Review Topics' in the success alert: onComplete(topicsResult.topics)
ReviewTopicsPressed ==
    /\ alert = AlertOf("success")
    /\ alert' = NoAlert
    /\ OpenReview(xres.topics)
    /\ ExtractReturn
    /\ UNCHANGED <<selectedFile, processingStep, ms, saving, savedList, events>>

\* AddContentScreen.handleSkip
HandleSkip ==
    /\ OnAddContent
    /\ ~IsProcessing
    /\ alert' = AlertOf("skip")
    /\ UNCHANGED <<nav, selectedFile, processingStep, initialTopics, rTopics,
                   editingId, editingTitle, ms, saving, savedList, events>>

\* 'Skip' in the alert: onSkip goes to the course detail
SkipConfirmed ==
    /\ alert = AlertOf("skip")
    /\ alert' = NoAlert
    /\ nav' = "detail"
    /\ events' = events \cup {"skip"}
    /\ UNCHANGED <<selectedFile, processingStep, initialTopics, rTopics,
                   editingId, editingTitle, ms, saving, savedList>>

\* AddContentScreen.handleAddManually: onComplete([])
HandleAddManually ==
    /\ OnAddContent
    /\ ~IsProcessing
    /\ OpenReview(<<>>)
    /\ UNCHANGED <<alert, selectedFile, processingStep, ms, saving, savedList,
                   events>>

\* the cancel button of an alert that has one
AlertDismissed ==
    /\ alert.kind \in {"skip", "remove", "save", "discard", "discardTopics",
                       "noTopics", "saveFailed"}
    /\ alert' = NoAlert
    /\ UNCHANGED <<nav, selectedFile, processingStep, initialTopics, rTopics,
                   editingId, editingTitle, ms, saving, savedList, events>>

\* a millisecond passes
MsPasses ==
    /\ nav = "review"
    /\ ms < FirstMs + MaxMs
    /\ ms' = ms + 1
    /\ UNCHANGED <<nav, alert, selectedFile, processingStep, initialTopics,
                   rTopics, editingId, editingTitle, saving, savedList, events>>

\* `topic-${Date.now()}`
NewTopicId(now) == "topic-" \o ToString(now)

\* ReviewTopicsScreen.addNewTopic
AddNewTopic ==
    /\ OnReview
    /\ Len(rTopics) < MaxReview
    /\ LET newTopic == ET(NewTopicId(ms), <<"New", " ", "Topic">>,
                          Len(rTopics) + 1, Kw(<<>>))
       IN /\ rTopics' = Append(rTopics, newTopic)
          /\ editingId' = newTopic.id
          /\ editingTitle' = newTopic.title
    /\ UNCHANGED <<nav, alert, selectedFile, processingStep, initialTopics, ms,
                   saving, savedList, events>>

\* ReviewTopicsScreen.startEditing, from the edit button of a topic
StartEditing(i) ==
    /\ OnReview
    /\ editingId' = rTopics[i].id
    /\ editingTitle' = rTopics[i].title
    /\ UNCHANGED <<nav, alert, selectedFile, processingStep, initialTopics,
                   rTopics, ms, saving, savedList, events>>

\* onChangeText of the title field
ChangeText(t) ==
    /\ OnReview
    /\ editingId # ""
    /\ editingTitle' = t
    /\ UNCHANGED <<nav, alert, selectedFile, processingStep, initialTopics,
                   rTopics, editingId, ms, saving, savedList, events>>

\* a saveEdit that takes the title as typed
SaveEditAsTyped ==
    /\ OnReview
    /\ editingId # ""
    /\ rTopics' = [i \in 1..Len(rTopics) |->
                      IF rTopics[i].id = editingId
                      THEN [rTopics[i] EXCEPT !.title = editingTitle]
                      ELSE rTopics[i]]
    /\ editingId' = ""
    /\ editingTitle' = <<>>
    /\ UNCHANGED <<nav, alert, selectedFile, processingStep, initialTopics, ms,
                   saving, savedList, events>>

\* ReviewTopicsScreen.saveEdit: nothing happens on an empty trimmed title
SaveEdit ==
    /\ OnReview
    /\ editingId # ""
    /\ TrimChars(editingTitle) # <<>>
    /\ rTopics' = [i \in 1..Len(rTopics) |->
                      IF rTopics[i].id = editingId
                      THEN [rTopics[i] EXCEPT !.title = TrimChars(editingTitle)]
                      ELSE rTopics[i]]
    /\ editingId' = ""
    /\ editingTitle' = <<>>
    /\ UNCHANGED <<nav, alert, selectedFile, processingStep, initialTopics, ms,
                   saving, savedList, events>>

\* ReviewTopicsScreen.cancelEdit
CancelEdit ==
    /\ OnReview
    /\ editingId # ""
    /\ editingId' = ""
    /\ editingTitle' = <<>>
    /\ UNCHANGED <<nav, alert, selectedFile, processingStep, initialTopics,
                   rTopics, ms, saving, savedList, events>>

\* ReviewTopicsScreen.removeTopic: the alert
RemoveTopic(i) ==
    /\ OnReview
    /\ alert' = AlertAbout("remove", rTopics[i].id)
    /\ UNCHANGED <<nav, selectedFile, processingStep, initialTopics, rTopics,
                   editingId, editingTitle, ms, saving, savedList, events>>

\* the list without the topics of this id, in its old numbering
RemoveKeepingOrders(list, id) == SelectSeq(list, LAMBDA t : t.id # id)

\* the list without the topics of this id, numbered from 1
RemoveAndReorder(list, id) ==
    LET filtered == SelectSeq(list, LAMBDA t : t.id # id)
    IN [i \in 1..Len(filtered) |-> [filtered[i] EXCEPT !.order = i]]

\* 'Remove' in the alert
RemoveConfirmed ==
    /\ alert.kind = "remove"
    /\ alert' = NoAlert
    /\ rTopics' = RemoveAndReorder(rTopics, alert.id)
    /\ UNCHANGED <<nav, selectedFile, processingStep, initialTopics, editingId,
                   editingTitle, ms, saving, savedList, events>>

\* ReviewTopicsScreen.handleSave; the button is disabled on an empty list
\* and while the save is loading
HandleSave ==
    /\ OnReview
    /\ Len(rTopics) # 0 /\ ~saving
    /\ alert' = IF Len(rTopics) = 0 THEN AlertOf("noTopics") ELSE AlertOf("save")
    /\ UNCHANGED <<nav, selectedFile, processingStep, initialTopics, rTopics,
                   editingId, editingTitle, ms, saving, savedList, events>>

\* 'Save' in the alert: onSave(topics), the wrapper's call of the store's
\* saveTopicsForCourse up to its await
SaveConfirmed ==
    /\ alert = AlertOf("save")
    /\ alert' = NoAlert
    /\ saving' = TRUE
    /\ savedList' = rTopics
    /\ UNCHANGED <<nav, selectedFile, processingStep, initialTopics, rTopics,
                   editingId, editingTitle, ms, events>>

\* the wrapper's onSave from the result of the store's call on
SaveReturns ==
    /\ saving
    /\ alert = NoAlert
    /\ saving' = FALSE
    /\ savedList' = <<>>
    /\ \E success \in BOOLEAN :
          alert' = IF success THEN AlertOf("saved") ELSE AlertOf("saveFailed")
    /\ UNCHANGED <<nav, selectedFile, processingStep, initialTopics, rTopics,
                   editingId, editingTitle, ms, events>>

\* 'View Course' in the alert after a save
ViewCoursePressed ==
    /\ alert = AlertOf("saved")
    /\ alert' = NoAlert
    /\ CloseReview("detail")
    /\ UNCHANGED <<selectedFile, processingStep, ms, saving, savedList, events>>

\* ReviewTopicsScreen.handleCancel (disabled while the save is loading):
\* its own alert when the list has changes, else the wrapper's onCancel
HandleCancel ==
    /\ OnReview
    /\ ~saving
    /\ alert' = IF rTopics # initialTopics THEN AlertOf("discard")
                ELSE AlertOf("discardTopics")
    /\ UNCHANGED <<nav, selectedFile, processingStep, initialTopics, rTopics,
                   editingId, editingTitle, ms, saving, savedList, events>>

\* 'Discard' in the screen's alert: the wrapper's onCancel and its alert
DiscardPressed ==
    /\ alert = AlertOf("discard")
    /\ alert' = AlertOf("discardTopics")
    /\ UNCHANGED <<nav, selectedFile, processingStep, initialTopics, rTopics,
                   editingId, editingTitle, ms, saving, savedList, events>>

\* 'Discard' in the wrapper's alert: to the course detail
DiscardConfirmed ==
    /\ alert = AlertOf("discardTopics")
    /\ alert' = NoAlert
    /\ CloseReview("detail")
    /\ events' = events \cup {"cancel"}
    /\ UNCHANGED <<selectedFile, processingStep, ms, saving, savedList>>

\* the wrapper's onBack: navigation.goBack() to the add-content screen
OnBack ==
    /\ OnReview
    /\ CloseReview("addContent")
    /\ UNCHANGED <<alert, selectedFile, processingStep, ms, saving, savedList,
                   events>>

(***************************************************************************)
(* The course form schema                                                  *)
(*                                                                         *)
(* Time is counted in hours. An instant is a number of hours since the     *)
(* epoch in UTC; a calendar date is a number of days since the epoch. The  *)
(* end date of the form is a string: empty, a date written YYYY-MM-DD, or  *)
(* a text that is no date.                                                 *)
(***************************************************************************)
HoursPerDay == 24
\* name: min(3) and max(100)
MinNameLength == 3
MaxNameLength == 100
\* description: max(500)
MaxDescriptionLength == 500
\* the calendar date (UTC) on which the clock starts, at 00:00 UTC
FirstDay == 4
\* the hours the clock runs
MaxHours == 16

\* local time minus UTC: New York (winter), Greenwich, Tokyo
TimeZones == {0 - 5, 0, 9}

EmptyDate == [kind |-> "empty", day |-> 0]
NotADate == [kind |-> "text", day |-> 0]
IsoDate(d) == [kind |-> "iso", day |-> d]

NoDescription == [given |-> FALSE, text |-> <<>>]
Description(t) == [given |-> TRUE, text |-> t]

FormData(name, endDate, description) ==
    [name |-> name, endDate |-> endDate, description |-> description]

NameInputs ==
    { <<>>,
      << Run("ch", 2) >>,
      << Run("ch", 3) >>,
      << Run("sp", 1), Run("ch", 2) >>,
      << Run("ch", 100) >>,
      << Run("ch", 101) >> }

EndDateInputs ==
    {EmptyDate, NotADate} \cup {IsoDate(d) : d \in (FirstDay - 1)..(FirstDay + 1)}

DescriptionInputs ==
    { NoDescription,
      Description(<< Run("sp", 1), Run("ch", 499) >>),
      Description(<< Run("ch", 501) >>) }

FormInputs ==
    { FormData(n, e, d) : n \in NameInputs, e \in EndDateInputs,
                          d \in DescriptionInputs }

NoForm == FormData(<<>>, EmptyDate, NoDescription)

\* new Date(date).getTime(): a date-only string is 00:00 UTC of that date
\* and a text that is no date is an invalid Date (NaN)
DateTime(e) ==
    IF e.kind = "iso" THEN [valid |-> TRUE, time |-> e.day * HoursPerDay]
    ELSE [valid |-> FALSE, time |-> 0]

\* the calendar date of the instant now on a device in time zone z
LocalDay(now, z) == (now + z) \div HoursPerDay

\* new Date() followed by setHours(0, 0, 0, 0): 00:00 local time of the
\* local calendar date, as an instant
LocalMidnight(now, z) == LocalDay(now, z) * HoursPerDay - z

\* the checks on name, in the order of the chain; trim comes last
NameIssue(name) ==
    \/ TextLength(name) < 1
    \/ TextLength(name) < MinNameLength
    \/ TextLength(name) > MaxNameLength

\* min(1) and the refinement selectedDate >= today
EndDateIssue(e, now, z) ==
    \/ e.kind = "empty"
    \/ ~DateTime(e).valid
    \/ ~(DateTime(e).time >= LocalMidnight(now, z))

DescriptionIssue(d) == d.given /\ TextLength(d.text) > MaxDescriptionLength

\* val?.trim() || undefined
DescriptionOut(d) ==
    IF d.given /\ TrimText(d.text) # <<>> THEN Description(TrimText(d.text))
    ELSE NoDescription

NoParse == [success |-> FALSE, data |-> NoForm, at |-> 0]

\* createCourseSchema.safeParse at the instant now in time zone z
SchemaParse(f, now, z) ==
    IF NameIssue(f.name) \/ EndDateIssue(f.endDate, now, z)
       \/ DescriptionIssue(f.description)
    THEN [success |-> FALSE, data |-> NoForm, at |-> now]
    ELSE [success |-> TRUE,
          data |-> FormData(TrimText(f.name), f.endDate,
                            DescriptionOut(f.description)),
          at |-> now]

SchemaInit ==
    /\ clock = FirstDay * HoursPerDay
    /\ tz = 0
    /\ form = NoForm
    /\ verdict = NoParse

\* the devices of the schema's runs: any of the time zones
SchemaDevices ==
    /\ clock = FirstDay * HoursPerDay
    /\ tz \in TimeZones
    /\ form = NoForm
    /\ verdict = NoParse

\* an hour passes
ClockTicks ==
    /\ clock < FirstDay * HoursPerDay + MaxHours
    /\ clock' = clock + 1
    /\ UNCHANGED <<tz, form, verdict>>

\* the form is validated
Validate(f) ==
    /\ form' = f
    /\ verdict' = SchemaParse(f, clock, tz)
    /\ UNCHANGED <<clock, tz>>

(***************************************************************************)
(* The conversions between ExtractedTopic and Topic                        *)
(***************************************************************************)

\* keywords in a list of the converted topics
MaxKeywords == 2

\* the keywords: a word, a phrase with a comma, a word that ends in a comma,
\* one that begins with a space, the empty string, a space, a comma and space
KeywordStrings ==
    { <<"a">>, <<"a", ",", " ", "b">>, <<"a", ",">>, <<" ", "b">>,
      <<>>, <<" ">>, <<",", " ">> }

KeywordInputs == SeqsUpTo(KeywordStrings, MaxKeywords)

\* the ExtractedTopics handed to extractedTopicToTopic
ConversionInputs ==
    {ET("topic-1", title, order, kw) :
        title \in {X, Y}, order \in 1..2,
        kw \in {NoKeywords} \cup {Kw(list) : list \in KeywordInputs}}

NoExtracted == ET("", <<>>, 0, NoKeywords)
NoTopic == [id |-> 0, courseId |-> NoCourse, title |-> <<>>, content |-> <<>>,
            orderIndex |-> 0]

RECURSIVE SplitFrom(_, _, _)
\* String.prototype.split: cur is the piece since the last separator
SplitFrom(s, sep, cur) ==
    IF s = <<>> THEN <<cur>>
    ELSE IF Len(s) >= Len(sep) /\ SubSeq(s, 1, Len(sep)) = sep
         THEN <<cur>> \o SplitFrom(SubSeq(s, Len(sep) + 1, Len(s)), sep, <<>>)
    ELSE SplitFrom(Tail(s), sep, Append(cur, Head(s)))

Split(s, sep) == SplitFrom(s, sep, <<>>)

\* .filter(k => k.trim())
FilterBlank(parts) == SelectSeq(parts, LAMBDA k : TrimChars(k) # <<>>)

\* TopicService.topicToExtractedTopic
TopicToExtractedTopic(topic) ==
    ET(topic.id, topic.title, topic.orderIndex,
       Kw(IF topic.content # <<>>
          THEN FilterBlank(Split(topic.content, CommaSpace)) ELSE <<>>))

\* TopicService.extractedTopicToTopic
ExtractedTopicToTopic(extractedTopic, courseId) ==
    [courseId |-> courseId,
     title |-> extractedTopic.title,
     content |-> IF extractedTopic.keywords.present
                 THEN Join(extractedTopic.keywords.list, CommaSpace) ELSE <<>>,
     orderIndex |-> extractedTopic.order]

ConversionInit ==
    /\ cvStage = "none"
    /\ cvIn = NoExtracted
    /\ cvTopic = NoTopic
    /\ cvOut = NoExtracted

\* extractedTopicToTopic is applied; the insert adds the id column
ConvertToTopic ==
    /\ cvStage = "extracted"
    /\ cvTopic' = [id |-> 1] @@ ExtractedTopicToTopic(cvIn, "c1")
    /\ cvStage' = "topic"
    /\ UNCHANGED <<cvIn, cvOut>>

\* topicToExtractedTopic is applied to the row
ConvertBack ==
    /\ cvStage = "topic"
    /\ cvOut' = TopicToExtractedTopic(cvTopic)
    /\ cvStage' = "back"
    /\ UNCHANGED <<cvIn, cvTopic>>

(***************************************************************************)
(* The auth store                                                          *)
(*                                                                         *)
(* Each of login, signup, logout and initializeAuth sets the loading flag, *)
(* awaits its call of SupabaseAuthService and applies the answer; the      *)
(* awaits of different actions interleave, and the auth listener runs in   *)
(* between. NoUser stands for a null user.                                 *)
(***************************************************************************)

\* auth actions started
MaxAuthCalls == 3

AuthOps == {"login", "signup", "logout", "initializeAuth"}

\* the events the backend client hands to the listener
AuthEvents == {"SIGNED_IN", "SIGNED_OUT", "TOKEN_REFRESHED"}

AuthInit ==
    /\ aUser = NoUser
    /\ aAuthenticated = FALSE
    /\ aLoading = FALSE
    /\ aPc = [o \in AuthOps |-> "idle"]
    /\ aCalls = 0
    /\ aLast = "none"

\* a setUser that marks the store authenticated whatever the user
SetUserAuthenticated(user) ==
    /\ aUser' = user
    /\ aAuthenticated' = TRUE

\* useAuthStore.setUser: isAuthenticated: !!user
SetUser(user) ==
    /\ aUser' = user
    /\ aAuthenticated' = (user # NoUser)

\* useAuthStore.clearAuth
ClearAuth ==
    /\ aUser' = NoUser
    /\ aAuthenticated' = FALSE
    /\ aLoading' = FALSE

\* setUser called from outside the store
CallSetUser(user) ==
    /\ SetUser(user)
    /\ aLast' = "setUser"
    /\ UNCHANGED <<aLoading, aPc, aCalls>>

\* clearAuth called from outside the store
CallClearAuth ==
    /\ ClearAuth
    /\ aLast' = "clearAuth"
    /\ UNCHANGED <<aPc, aCalls>>

\* an auth action up to its await: set({ isLoading: true })
AuthBegins(op) ==
    /\ aPc[op] = "idle"
    /\ aCalls < MaxAuthCalls
    /\ aPc' = [aPc EXCEPT ![op] = "await"]
    /\ aCalls' = aCalls + 1
    /\ aLoading' = TRUE
    /\ aLast' = op
    /\ UNCHANGED <<aUser, aAuthenticated>>

\* the awaited call of op returns or throws, and the action ends
AuthEnds(op) ==
    /\ aPc[op] = "await"
    /\ aPc' = [aPc EXCEPT ![op] = "idle"]
    /\ UNCHANGED aCalls

\* useAuthStore.login
Login == AuthBegins("login")

\* login from the answer of signIn on: a user, no user, or a thrown error
LoginReturns ==
    /\ AuthEnds("login")
    /\ \E o \in {"ok", "throw"}, user \in Users \cup {NoUser} :
        IF o = "ok" /\ user # NoUser
        THEN SetUser(user) /\ aLast' = "loggedIn"
        ELSE UNCHANGED <<aUser, aAuthenticated>> /\ aLast' = "loginFailed"
    /\ aLoading' = FALSE

\* useAuthStore.signup
Signup == AuthBegins("signup")

\* signup from the answer of signUp on
SignupReturns ==
    /\ AuthEnds("signup")
    /\ \E o \in {"ok", "throw"}, user \in Users \cup {NoUser} :
        IF o = "ok" /\ user # NoUser
        THEN SetUser(user) /\ aLast' = "signedUp"
        ELSE UNCHANGED <<aUser, aAuthenticated>> /\ aLast' = "signupFailed"
    /\ aLoading' = FALSE

\* useAuthStore.logout
Logout == AuthBegins("logout")

\* logout from the answer of signOut on: clearAuth, or the catch
LogoutReturns ==
    /\ AuthEnds("logout")
    /\ \E o \in {"ok", "throw"} :
        IF o = "ok"
        THEN ClearAuth /\ aLast' = "loggedOut"
        ELSE /\ aLoading' = FALSE
             /\ aLast' = "logoutFailed"
             /\ UNCHANGED <<aUser, aAuthenticated>>

\* useAuthStore.initializeAuth
InitializeAuth == AuthBegins("initializeAuth")

\* initializeAuth from the answer of getCurrentSession on
InitializeAuthReturns ==
    /\ AuthEnds("initializeAuth")
    /\ \E o \in {"ok", "throw"}, user \in Users \cup {NoUser} :
        IF o = "ok" /\ user # NoUser
        THEN SetUser(user) /\ aLast' = "restored"
        ELSE UNCHANGED <<aUser, aAuthenticated>> /\ aLast' = "notRestored"
    /\ aLoading' = FALSE

\* the listener of supabase.auth.onAuthStateChange; user is session?.user
OnAuthStateChange(event, user) ==
    /\ IF event = "SIGNED_IN" /\ user # NoUser
       THEN SetUser(user) /\ UNCHANGED aLoading
       ELSE IF event = "SIGNED_OUT"
       THEN ClearAuth
       ELSE UNCHANGED <<aUser, aAuthenticated, aLoading>>
    /\ aLast' = event
    /\ UNCHANGED <<aPc, aCalls>>

Init ==
    /\ GatewayInit /\ nextCourse = 3 /\ StoreInit /\ ScreenInit /\ FlowInit /\ SchemaInit
    /\ ExtractionInit /\ ReaderInit /\ CleaningInit
    /\ ConversionInit /\ AuthInit

\* clients (sessions, devices) whose calls interleave at every await;
\* at most MaxCalls calls are started
Next ==
    \/ \E p \in Clients : calls < MaxCalls /\ SaveTopicsForCourse(p) /\ UNCHANGED offTopics
    \/ \E p \in Clients : calls < MaxCalls /\ GetTopicsForCourse(p) /\ UNCHANGED offTopics
    \/ \E p \in Clients : calls < MaxCalls /\ CreateTopic(p) /\ UNCHANGED offTopics
    \/ \E p \in Clients : VerifyCourse(p) /\ UNCHANGED offTopics
    \/ \E p \in Clients : SaveDelete(p) /\ UNCHANGED offTopics
    \/ \E p \in Clients : SaveMarkEmpty(p) /\ UNCHANGED offTopics
    \/ \E p \in Clients : SaveInsert(p) /\ UNCHANGED offTopics
    \/ \E p \in Clients : SaveMark(p) /\ UNCHANGED offTopics
    \/ \E p \in Clients : GetSelect(p) /\ UNCHANGED offTopics
    \/ \E p \in Clients : CreateInsert(p) /\ UNCHANGED offTopics
    \/ \E p \in Clients : calls < MaxCalls /\ UpdateTopic(p) /\ UNCHANGED offTopics
    \/ \E p \in Clients : calls < MaxCalls /\ DeleteTopic(p) /\ UNCHANGED offTopics
    \/ \E p \in Clients : VerifyTopic(p) /\ UNCHANGED offTopics
    \/ \E p \in Clients : UpdateUpdate(p) /\ UNCHANGED offTopics
    \/ \E p \in Clients : DeleteDelete(p) /\ UNCHANGED offTopics
    \/ \E p \in Clients : calls < MaxCalls /\ DeleteCourse(p) /\ UNCHANGED offTopics
    \/ \E p \in Clients : DeleteCourseDelete(p) /\ UNCHANGED offTopics
    \/ \E p \in Clients : Return(p) /\ UNCHANGED offTopics

Spec == Init /\ [][Next]_vars

\* no other client has a call in flight
Alone(p) == \A q \in Clients \ {p} : pc[q] = "idle"

\* one call at a time: each call runs to its return before the next starts
SeqNext ==
    \/ \E p \in Clients : Alone(p) /\ SaveTopicsForCourse(p) /\ UNCHANGED offTopics
    \/ \E p \in Clients : Alone(p) /\ GetTopicsForCourse(p) /\ UNCHANGED offTopics
    \/ \E p \in Clients : Alone(p) /\ CreateTopic(p) /\ UNCHANGED offTopics
    \/ \E p \in Clients : Alone(p) /\ VerifyCourse(p) /\ UNCHANGED offTopics
    \/ \E p \in Clients : Alone(p) /\ SaveDelete(p) /\ UNCHANGED offTopics
    \/ \E p \in Clients : Alone(p) /\ SaveMarkEmpty(p) /\ UNCHANGED offTopics
    \/ \E p \in Clients : Alone(p) /\ SaveInsert(p) /\ UNCHANGED offTopics
    \/ \E p \in Clients : Alone(p) /\ SaveMark(p) /\ UNCHANGED offTopics
    \/ \E p \in Clients : Alone(p) /\ GetSelect(p) /\ UNCHANGED offTopics
    \/ \E p \in Clients : Alone(p) /\ CreateInsert(p) /\ UNCHANGED offTopics
    \/ \E p \in Clients : Alone(p) /\ UpdateTopic(p) /\ UNCHANGED offTopics
    \/ \E p \in Clients : Alone(p) /\ DeleteTopic(p) /\ UNCHANGED offTopics
    \/ \E p \in Clients : Alone(p) /\ VerifyTopic(p) /\ UNCHANGED offTopics
    \/ \E p \in Clients : Alone(p) /\ UpdateUpdate(p) /\ UNCHANGED offTopics
    \/ \E p \in Clients : Alone(p) /\ DeleteDelete(p) /\ UNCHANGED offTopics
    \/ \E p \in Clients : Alone(p) /\ DeleteCourse(p) /\ UNCHANGED offTopics
    \/ \E p \in Clients : Alone(p) /\ DeleteCourseDelete(p) /\ UNCHANGED offTopics
    \/ \E p \in Clients : Alone(p) /\ Return(p) /\ UNCHANGED offTopics

SeqSpec == Init /\ [][SeqNext]_vars

\* the operations of CourseService
CourseNext ==
    \/ \E p \in Clients : calls < MaxCalls /\ GetCourses(p) /\ UNCHANGED offTopics
    \/ \E p \in Clients : GetCoursesSelect(p) /\ UNCHANGED offGateway
    \/ \E p \in Clients : calls < MaxCalls /\ CreateCourse(p) /\ UNCHANGED offTopics
    \/ \E p \in Clients : CreateCourseInsert(p) /\ UNCHANGED offGateway
    \/ \E p \in Clients : calls < MaxCalls /\ UpdateCourse(p) /\ UNCHANGED offTopics
    \/ \E p \in Clients : UpdateCourseUpdate(p) /\ UNCHANGED offGateway

\* both services: the calls of the clients interleave at every await
ServiceNext == Next \/ CourseNext

ServiceSpec == Init /\ [][ServiceNext]_vars

\* the extraction client on its own: one extractTopics call at a time
ExtractNext ==
    \/ Initialize /\ UNCHANGED offExtraction
    \/ ExtractTopics /\ UNCHANGED offExtraction
    \/ FetchSettles /\ UNCHANGED offExtraction
    \/ ExtractReturn /\ UNCHANGED offExtraction

ExtractSpec == Init /\ [][ExtractNext]_vars

\* the course store over CourseService: store actions of one app, whose
\* awaits interleave
StoreNext ==
    \/ \E p \in Clients : calls < MaxCalls /\ StoreFetchCourses(p) /\ UNCHANGED <<nextCourse, offStore>>
    \/ \E p \in Clients : GetCoursesSelect(p) /\ UNCHANGED <<store, topicStore, offStore>>
    \/ \E p \in Clients : StoreFetchCoursesResolves(p) /\ UNCHANGED <<nextCourse, offStore>>
    \/ \E p \in Clients : calls < MaxCalls /\ StoreCreateCourse(p) /\ UNCHANGED <<nextCourse, offStore>>
    \/ \E p \in Clients : CreateCourseInsert(p) /\ UNCHANGED <<store, topicStore, offStore>>
    \/ \E p \in Clients : StoreCreateCourseResolves(p) /\ UNCHANGED <<nextCourse, offStore>>

StoreSpec == Init /\ [][StoreNext]_vars

\* an app whose user owns two courses with a topic each, with the courses
\* loaded, the first one selected and its topics fetched
LoadedInit ==
    /\ courses = {Course("c1", "u1", TRUE), Course("c2", "u1", TRUE)}
    /\ topics = {[id |-> 1, courseId |-> "c1", title |-> X, content |-> <<>>,
                   orderIndex |-> 1],
                  [id |-> 2, courseId |-> "c2", title |-> Y, content |-> <<>>,
                   orderIndex |-> 1]}
    /\ nextId = 3
    /\ pc = [p \in Clients |-> "idle"]
    /\ call = [p \in Clients |-> NoCall]
    /\ ret = [p \in Clients |-> NoRet]
    /\ calls = 0
    /\ lastSaved = NoSave
    /\ nextCourse = 3
    /\ sCourses = <<Course("c1", "u1", TRUE), Course("c2", "u1", TRUE)>>
    /\ sLoading = FALSE
    /\ sError = None
    /\ sBefore = [p \in Clients |-> 0]
    /\ sSelected = Course("c1", "u1", TRUE)
    /\ sTopics = <<[id |-> 1, courseId |-> "c1", title |-> X, content |-> <<>>,
                     orderIndex |-> 1]>>
    /\ sLoadingTopics = FALSE
    /\ sTopicError = None
    /\ sRequested = "c1"
    /\ ScreenInit /\ FlowInit /\ SchemaInit
    /\ ExtractionInit /\ ReaderInit /\ CleaningInit
    /\ ConversionInit /\ AuthInit

\* the store's actions on courses and the fetch of topics, over the two
\* services; their awaits interleave
LoadedNext ==
    \/ \E p \in Clients : calls < MaxCalls /\ StoreFetchCourses(p) /\ UNCHANGED <<nextCourse, offStore>>
    \/ \E p \in Clients : calls < MaxCalls /\ StoreCreateCourse(p) /\ UNCHANGED <<nextCourse, offStore>>
    \/ \E p \in Clients, c \in CourseIds : calls < MaxCalls /\ StoreUpdateCourse(p, c) /\ UNCHANGED <<nextCourse, offStore>>
    \/ \E p \in Clients, c \in CourseIds : calls < MaxCalls /\ StoreDeleteCourse(p, c) /\ UNCHANGED <<nextCourse, offStore>>
    \/ \E p \in Clients, c \in CourseIds : calls < MaxCalls /\ StoreFetchTopicsForCourse(p, c) /\ UNCHANGED <<store, nextCourse, offStore>>
    \/ \E i \in 1..Len(sCourses) : SetSelectedCourse(i) /\ UNCHANGED <<gateway, nextCourse, store, offStore>>
    \/ \E p \in Clients : GetCoursesSelect(p) /\ UNCHANGED <<store, topicStore, offStore>>
    \/ \E p \in Clients : CreateCourseInsert(p) /\ UNCHANGED <<store, topicStore, offStore>>
    \/ \E p \in Clients : UpdateCourseUpdate(p) /\ UNCHANGED <<store, topicStore, offStore>>
    \/ \E p \in Clients : DeleteCourseDelete(p) /\ UNCHANGED <<nextCourse, store, topicStore, offStore>>
    \/ \E p \in Clients : VerifyCourse(p) /\ UNCHANGED <<nextCourse, store, topicStore, offStore>>
    \/ \E p \in Clients : GetSelect(p) /\ UNCHANGED <<nextCourse, store, topicStore, offStore>>
    \/ \E p \in Clients : StoreFetchCoursesResolves(p) /\ UNCHANGED <<nextCourse, offStore>>
    \/ \E p \in Clients : StoreCreateCourseResolves(p) /\ UNCHANGED <<nextCourse, offStore>>
    \/ \E p \in Clients : StoreUpdateCourseResolves(p) /\ UNCHANGED <<nextCourse, offStore>>
    \/ \E p \in Clients : StoreDeleteCourseResolves(p) /\ UNCHANGED <<nextCourse, offStore>>
    \/ \E p \in Clients : StoreFetchTopicsResolves(p) /\ UNCHANGED <<nextCourse, store, offStore>>

LoadedSpec == LoadedInit /\ [][LoadedNext]_vars

\* the courses list screen over the store: what the user does on it, and
\* the calls these actions start
ListNext ==
    \/ \E p \in Clients : ListMounts(p) /\ UNCHANGED offScreen
    \/ \E p \in Clients : ListRefreshes(p) /\ UNCHANGED offScreen
    \/ \E p \in Clients : ListDeletes(p) /\ UNCHANGED offScreen
    \/ \E p \in Clients : GetCoursesSelect(p) /\ UNCHANGED <<store, topicStore, screen, offScreen>>
    \/ \E p \in Clients : DeleteCourseDelete(p) /\ UNCHANGED <<store, topicStore, screen, offScreen>>
    \/ \E p \in Clients : StoreFetchCoursesResolves(p) /\ UNCHANGED <<screen, offScreen>>
    \/ \E p \in Clients : StoreDeleteCourseResolves(p) /\ UNCHANGED <<screen, offScreen>>

ListSpec == Init /\ [][ListNext]_vars

\* the add-content flow of one course, over the file reader and the
\* extraction client; the edits of titles are left to ReviewNext
FlowNext ==
    \/ Initialize /\ UNCHANGED <<flow, reader, offFlow>>
    \/ HandleFileSelected /\ UNCHANGED <<reader, extraction, offFlow>>
    \/ ProcessSyllabus /\ UNCHANGED <<extraction, offFlow>>
    \/ ExtractionSettles /\ UNCHANGED <<flow, extraction, offFlow>>
    \/ ReadReturns /\ UNCHANGED offFlow
    \/ \E resp \in FlowResponses : FetchAnswered(resp) /\ UNCHANGED <<flow, reader, offFlow>>
    \/ ExtractionReturns /\ UNCHANGED <<reader, offFlow>>
    \/ ReviewTopicsPressed /\ UNCHANGED <<reader, offFlow>>
    \/ HandleSkip /\ UNCHANGED <<reader, extraction, offFlow>>
    \/ SkipConfirmed /\ UNCHANGED <<reader, extraction, offFlow>>
    \/ HandleAddManually /\ UNCHANGED <<reader, extraction, offFlow>>
    \/ AlertDismissed /\ UNCHANGED <<reader, extraction, offFlow>>
    \/ AddNewTopic /\ UNCHANGED <<reader, extraction, offFlow>>
    \/ \E i \in 1..Len(rTopics) : RemoveTopic(i) /\ UNCHANGED <<reader, extraction, offFlow>>
    \/ RemoveConfirmed /\ UNCHANGED <<reader, extraction, offFlow>>
    \/ HandleSave /\ UNCHANGED <<reader, extraction, offFlow>>
    \/ SaveConfirmed /\ UNCHANGED <<reader, extraction, offFlow>>
    \/ SaveReturns /\ UNCHANGED <<reader, extraction, offFlow>>
    \/ ViewCoursePressed /\ UNCHANGED <<reader, extraction, offFlow>>
    \/ HandleCancel /\ UNCHANGED <<reader, extraction, offFlow>>
    \/ DiscardPressed /\ UNCHANGED <<reader, extraction, offFlow>>
    \/ DiscardConfirmed /\ UNCHANGED <<reader, extraction, offFlow>>
    \/ OnBack /\ UNCHANGED <<reader, extraction, offFlow>>

FlowSpec == Init /\ [][FlowNext]_vars

\* the topic lists a review screen opens with: what the parse makes of the
\* provider's answers, and the empty list of 'add manually'
ReviewInputs ==
    {<<>>} \cup
    { ParseOpenAIResponse(r).topics :
        r \in {a \in FlowResponses : a.kind = "topics" /\ ParseOpenAIResponse(a).ok} }

\* the review screen as it opens
ReviewInit ==
    /\ GatewayInit /\ nextCourse = 3 /\ StoreInit /\ ScreenInit /\ SchemaInit
    /\ ExtractionInit /\ ReaderInit /\ CleaningInit
    /\ ConversionInit /\ AuthInit
    /\ nav = "review"
    /\ alert = NoAlert
    /\ selectedFile = FALSE
    /\ processingStep = "idle"
    /\ initialTopics \in ReviewInputs
    /\ rTopics = initialTopics
    /\ editingId = ""
    /\ editingTitle = <<>>
    /\ ms = FirstMs
    /\ saving = FALSE
    /\ savedList = <<>>
    /\ events = {}

\* what the user does on the review screen, up to the save
ReviewNext ==
    \/ MsPasses /\ UNCHANGED <<reader, extraction, offFlow>>
    \/ AddNewTopic /\ UNCHANGED <<reader, extraction, offFlow>>
    \/ \E i \in 1..Len(rTopics) : StartEditing(i) /\ UNCHANGED <<reader, extraction, offFlow>>
    \/ \E t \in TitleInputs : ChangeText(t) /\ UNCHANGED <<reader, extraction, offFlow>>
    \/ SaveEdit /\ UNCHANGED <<reader, extraction, offFlow>>
    \/ CancelEdit /\ UNCHANGED <<reader, extraction, offFlow>>
    \/ \E i \in 1..Len(rTopics) : RemoveTopic(i) /\ UNCHANGED <<reader, extraction, offFlow>>
    \/ RemoveConfirmed /\ UNCHANGED <<reader, extraction, offFlow>>
    \/ AlertDismissed /\ UNCHANGED <<reader, extraction, offFlow>>
    \/ HandleSave /\ UNCHANGED <<reader, extraction, offFlow>>
    \/ SaveConfirmed /\ UNCHANGED <<reader, extraction, offFlow>>
    \/ SaveReturns /\ UNCHANGED <<reader, extraction, offFlow>>

ReviewSpec == ReviewInit /\ [][ReviewNext]_vars

\* the review screen's editing alone: topics are added, renamed and removed
EditNext ==
    \/ MsPasses /\ UNCHANGED <<reader, extraction, offFlow>>
    \/ AddNewTopic /\ UNCHANGED <<reader, extraction, offFlow>>
    \/ \E i \in 1..Len(rTopics) : StartEditing(i) /\ UNCHANGED <<reader, extraction, offFlow>>
    \/ \E t \in TitleInputs : ChangeText(t) /\ UNCHANGED <<reader, extraction, offFlow>>
    \/ SaveEdit /\ UNCHANGED <<reader, extraction, offFlow>>
    \/ CancelEdit /\ UNCHANGED <<reader, extraction, offFlow>>
    \/ \E i \in 1..Len(rTopics) : RemoveTopic(i) /\ UNCHANGED <<reader, extraction, offFlow>>
    \/ RemoveConfirmed /\ UNCHANGED <<reader, extraction, offFlow>>
    \/ AlertDismissed /\ UNCHANGED <<reader, extraction, offFlow>>

EditSpec == ReviewInit /\ [][EditNext]_vars

\* the form schema on its own, on a device in any of the time zones
SchemaNext ==
    \/ ClockTicks /\ UNCHANGED offSchema
    \/ \E f \in FormInputs : Validate(f) /\ UNCHANGED offSchema

\* the devices the schema's runs start on
DeviceInit ==
    /\ GatewayInit /\ nextCourse = 3 /\ StoreInit /\ ScreenInit /\ FlowInit /\ SchemaDevices
    /\ ExtractionInit /\ ReaderInit /\ CleaningInit
    /\ ConversionInit /\ AuthInit

SchemaSpec == DeviceInit /\ [][SchemaNext]_vars

\* the file reader on its own: one readFileText call at a time
ReaderNext ==
    \/ ReadFileText /\ UNCHANGED offReader
    \/ ExtractionSettles /\ UNCHANGED offReader
    \/ FileReturn /\ UNCHANGED offReader

ReaderSpec == Init /\ [][ReaderNext]_vars

\* a cleaning transform applied to a text, then to its own result
CleanNext ==
    \/ ApplyCleanSyllabusText /\ UNCHANGED offCleaning
    \/ ApplyCleanExtractedText /\ UNCHANGED offCleaning

\* the texts the cleaning runs start from
CleanInit ==
    /\ GatewayInit /\ nextCourse = 3 /\ StoreInit /\ ScreenInit /\ FlowInit /\ SchemaInit
    /\ ExtractionInit /\ ReaderInit /\ CleaningInputs
    /\ ConversionInit /\ AuthInit

CleanSpec == CleanInit /\ [][CleanNext]_vars

\* an ExtractedTopic is saved and read back
ConvertNext ==
    \/ ConvertToTopic /\ UNCHANGED offConversion
    \/ ConvertBack /\ UNCHANGED offConversion

\* the topics the conversions start from
ConvertInit ==
    /\ GatewayInit /\ nextCourse = 3 /\ StoreInit /\ ScreenInit /\ FlowInit /\ SchemaInit
    /\ ExtractionInit /\ ReaderInit /\ CleaningInit /\ AuthInit
    /\ cvStage = "extracted"
    /\ cvIn \in ConversionInputs
    /\ cvTopic = NoTopic
    /\ cvOut = NoExtracted

ConvertSpec == ConvertInit /\ [][ConvertNext]_vars

\* the auth store: its actions, their answers and the listener, interleaved
AuthNext ==
    \/ \E user \in Users \cup {NoUser} : CallSetUser(user) /\ UNCHANGED offAuth
    \/ CallClearAuth /\ UNCHANGED offAuth
    \/ Login /\ UNCHANGED offAuth
    \/ LoginReturns /\ UNCHANGED offAuth
    \/ Signup /\ UNCHANGED offAuth
    \/ SignupReturns /\ UNCHANGED offAuth
    \/ Logout /\ UNCHANGED offAuth
    \/ LogoutReturns /\ UNCHANGED offAuth
    \/ InitializeAuth /\ UNCHANGED offAuth
    \/ InitializeAuthReturns /\ UNCHANGED offAuth
    \/ \E event \in AuthEvents, user \in Users \cup {NoUser} :
          OnAuthStateChange(event, user) /\ UNCHANGED offAuth

AuthSpec == Init /\ [][AuthNext]_vars

(***************************************************************************)
(* Claims about the topic persistence gateway                              *)
(***************************************************************************)
Done(p, op) == pc[p] = "done" /\ call[p].op = op

\* a get of course c that returned the rows of the save that came last
GetAfterSave(p) ==
    /\ Done(p, "get")
    /\ ret[p].success
    /\ lastSaved.course = call[p].course
    /\ OrdersOneToN(lastSaved.list)

RoundTripTitles ==
    \A p \in Clients :
        GetAfterSave(p) =>
            /\ Len(ret[p].data) = Len(lastSaved.list)
            /\ Titles(ret[p].data) = Titles(lastSaved.list)

Proj(r) == [title |-> r.title, content |-> r.content, orderIndex |-> r.orderIndex]

\* the rows are those of the list: each (title, content, orderIndex) as often
RowsAreList(rows, ins) ==
    /\ Cardinality(rows) = Len(ins)
    /\ \A r \in rows :
          Cardinality({q \in rows : Proj(q) = Proj(r)}) =
          Cardinality({i \in 1..Len(ins) : Proj(ins[i]) = Proj(r)})

\* C2: once every save call for a course has completed successfully, the
\* course's rows are exactly the rows of one of the saved lists, also when
\* the delete and insert steps of two saves of the course interleave.
C2_SavesReplaceTopicSet ==
    \A c \in CourseIds :
        (\A p \in Clients :
            Done(p, "save") /\ call[p].course = c /\ ret[p].success)
        => \E p \in Clients :
              RowsAreList(TopicsOf(topics, c), TopicsToInsert(c, call[p].list))

InsertFailed(p) ==
    /\ call[p].op = "save"
    /\ pc[p] = "sv_insert"
    /\ pc'[p] = "done"

\* C3 as stated: when the delete succeeds and the insert fails, the save
\* returns success:false and leaves the course with zero topics and an
\* unset (false) topicsExtracted flag.
C3_InsertFailureLeavesFlagUnset ==
    [][\A p \in Clients :
          InsertFailed(p) =>
              /\ ~ret'[p].success
              /\ TopicsOf(topics', call[p].course) = {}
              /\ ~FlagOf(courses', call[p].course)]_vars

\* C3 amended: when the delete succeeds and the insert fails, the save
\* returns success:false and leaves the course with zero topics and with
\* the topicsExtracted flag it had when the call began (no step of the save
\* before the final mark writes a course row); nothing is rolled back.
C3_InsertFailureLeavesNoTopics ==
    [][\A p \in Clients :
          /\ InsertFailed(p) =>
                /\ ~ret'[p].success
                /\ TopicsOf(topics', call[p].course) = {}
                /\ topics' = topics
          /\ (call[p].op = "save" /\ pc[p] \in {"verify", "sv_delete", "sv_insert"})
                => courses' = courses]_vars

C3_Witness ==
    \E p \in Clients :
        /\ Done(p, "save")
        /\ ret[p].error = "Failed to save topics"
        /\ TopicsOf(topics, call[p].course) = {}
        /\ FlagOf(courses, call[p].course)

\* C4: a TopicService call made with no authenticated user, or on a course
\* (or a topic of a course) the caller does not own, changes no topic row and
\* no course row at any of its steps and returns success:false.
C4_UnauthorizedCallsWriteNothing ==
    [][\A p \in Clients :
          (/\ pc'[p] # pc[p]
           /\ pc'[p] # "idle"
           /\ call'[p].op \in {"save", "get", "create", "update", "delete"}
           /\ ~call'[p].authorized)
          => /\ topics' = topics
             /\ courses' = courses
             /\ pc'[p] = "done" => ~ret'[p].success]_vars

C4_Witness ==
    \E p, q \in Clients :
        /\ Done(p, "save")
        /\ call[p].user # NoUser
        /\ ~call[p].authorized
        /\ ~ret[p].success
        /\ TopicsOf(topics, call[p].course) # {}
        /\ Done(q, "update")
        /\ call[q].user # NoUser
        /\ ~call[q].authorized
        /\ ~ret[q].success

\* C5: after deleteCourse(id) completes, either the course and all its
\* topics are gone, or the call reported failure and the course is still
\* present.
C5_DeleteCourseAllOrNothing ==
    \A p \in Clients :
        Done(p, "deleteCourse") =>
            \/ /\ ~CourseExists(courses, call[p].course)
               /\ TopicsOf(topics, call[p].course) = {}
            \/ /\ ~ret[p].success
               /\ CourseExists(courses, call[p].course)


(***************************************************************************)
(* Claims about the topic extraction client (under ExtractSpec)            *)
(***************************************************************************)
\* extractTopics has returned and its result is not yet taken
Extracted == xpc = "done"

\* the answer of the provider was a 2xx whose content parsed to a topics array
AnsweredWithTopics == Extracted /\ xresp.kind = "topics"

\* the characters from the first to the last non-whitespace character of t
TrimmedLength(t) ==
    LET solid == {i \in 1..Len(t) : t[i].k = "ch"}
    IN IF solid = {} THEN 0
       ELSE LET lo == CHOOSE i \in solid : \A j \in solid : i <= j
                hi == CHOOSE i \in solid : \A j \in solid : j <= i
            IN TextLength(SubSeq(t, lo, hi))

\* C6: for every input text whose trimmed length is below 50 characters
\* (the empty text included) extractTopics returns success false with an
\* empty topics list and issues no network request.
C6_ShortTextFailsWithoutRequest ==
    (Extracted /\ TrimmedLength(xtext) < 50) =>
        /\ ~xres.success
        /\ xres.topics = <<>>
        /\ requests = 0

\* a configured client was given a text of 50 or more characters of which
\* fewer than 50 are left after trimming, and has returned
C6_Witness ==
    /\ Extracted
    /\ apiKey # ""
    /\ TextLength(xtext) >= 50
    /\ TrimmedLength(xtext) < 50
    /\ ~xres.success
    /\ requests = 0

\* an entry with a title that is a non-empty string
ValidEntry(e) == e.obj /\ e.title.t = "str" /\ e.title.v # <<>>

ExpectedIds == <<"topic-1", "topic-2", "topic-3", "topic-4">>

\* C7: for every well-formed provider response whose topics array has
\* N >= 1 valid entries, extractTopics returns exactly N topics in the order
\* of the response, and the i-th topic has order i and identifier topic-i.
C7_TopicsNumberedInResponseOrder ==
    (/\ AnsweredWithTopics
     /\ Len(xresp.entries) >= 1
     /\ \A i \in 1..Len(xresp.entries) : ValidEntry(xresp.entries[i])) =>
        /\ xres.success
        /\ Len(xres.topics) = Len(xresp.entries)
        /\ \A i \in 1..Len(xresp.entries) :
            /\ xres.topics[i].order = i
            /\ xres.topics[i].id = ExpectedIds[i]
            /\ xres.topics[i].title = TrimChars(xresp.entries[i].title.v)

\* two valid entries with different titles came back as two topics
C7_Witness ==
    /\ AnsweredWithTopics
    /\ Len(xresp.entries) = 2
    /\ \A i \in 1..2 : ValidEntry(xresp.entries[i])
    /\ TrimChars(xresp.entries[1].title.v) # TrimChars(xresp.entries[2].title.v)
    /\ xres.success
    /\ Len(xres.topics) = 2

\* an entry whose title is the empty string, null or absent
TitleEmptyOrMissing(e) ==
    e.obj /\ (e.title.t \in {"undefined", "null"} \/ e.title = JStr(<<>>))

\* C8: if any entry of the provider's topics array has an empty or missing
\* title, the whole extractTopics call returns success false with an empty
\* topics list; the valid entries of the response are not returned.
C8_MissingTitleFailsWholeCall ==
    (/\ AnsweredWithTopics
     /\ \E i \in 1..Len(xresp.entries) : TitleEmptyOrMissing(xresp.entries[i])) =>
        /\ ~xres.success
        /\ xres.topics = <<>>

\* a response with a valid entry followed by one with the empty title failed
C8_Witness ==
    /\ AnsweredWithTopics
    /\ Len(xresp.entries) = 2
    /\ ValidEntry(xresp.entries[1])
    /\ xresp.entries[2].obj /\ xresp.entries[2].title = JStr(<<>>)
    /\ ~xres.success
    /\ xres.topics = <<>>

\* the string-typed values of an array, in their order in the array
StringsOf(kw) ==
    LET idx == {i \in 1..Len(kw) : kw[i].t = "str"}
        Nth(j) == CHOOSE i \in idx : Cardinality({h \in idx : h < i}) = j - 1
    IN [j \in 1..Cardinality(idx) |-> kw[Nth(j)].v]

\* C9: for every topic entry whose keywords field is an array of mixed
\* values, the extracted topic's keywords are exactly the string-typed
\* entries of that array in their original relative order.
C9_KeywordsAreTheStringsInOrder ==
    (AnsweredWithTopics /\ xres.success) =>
        \A i \in 1..Len(xresp.entries) :
            xresp.entries[i].kwKind = "arr" =>
                /\ xres.topics[i].keywords.list = StringsOf(xresp.entries[i].kw)
                /\ StringsOf(xresp.entries[i].kw) # <<>> =>
                       xres.topics[i].keywords.present

\* the keywords ["a", 2, "b", null] came back as ["a", "b"]
C9_Witness ==
    /\ AnsweredWithTopics
    /\ xres.success
    /\ \E i \in 1..Len(xresp.entries) :
        /\ xresp.entries[i].kw =
               << JStr(<<"a">>), JNum(<<"2">>), JStr(<<"b">>), JNull >>
        /\ xres.topics[i].keywords = Kw(<< <<"a">>, <<"b">> >>)

\* a keywords array of which no entry is a string
NoKeywordSurvives(e) == e.kwKind = "arr" /\ StringsOf(e.kw) = <<>>

\* C10 (as stated): when no entry of a topic's keywords array survives the
\* string-type filter (the empty array included), the extracted topic
\* carries no keywords field at all rather than an empty keywords list.
C10_NoSurvivorNoKeywordsField ==
    (AnsweredWithTopics /\ xres.success) =>
        \A i \in 1..Len(xresp.entries) :
            NoKeywordSurvives(xresp.entries[i]) =>
                ~xres.topics[i].keywords.present

\* C10 (amended): when no entry of a topic's keywords array survives the
\* string-type filter (the empty array included), the extracted topic
\* carries an empty keywords list; the keywords field is absent exactly
\* when the provider's keywords value is not an array.
C10_NoSurvivorEmptyKeywordsList ==
    (AnsweredWithTopics /\ xres.success) =>
        \A i \in 1..Len(xresp.entries) :
            /\ NoKeywordSurvives(xresp.entries[i]) =>
                   xres.topics[i].keywords = Kw(<<>>)
            /\ xres.topics[i].keywords.present <=>
                   xresp.entries[i].kwKind = "arr"

\* a non-empty keywords array without a string came back as an empty list,
\* next to a topic whose entry had no keywords array and has no keywords
C10_Witness ==
    /\ AnsweredWithTopics
    /\ xres.success
    /\ \E i, j \in 1..Len(xresp.entries) :
        /\ xresp.entries[i].kw # <<>>
        /\ NoKeywordSurvives(xresp.entries[i])
        /\ xres.topics[i].keywords = Kw(<<>>)
        /\ xresp.entries[j].kwKind # "arr"
        /\ ~xres.topics[j].keywords.present


(***************************************************************************)
(* Claims about the text-cleaning transforms (under CleanSpec)             *)
(***************************************************************************)
\* the transform has been applied to the text and then to its result
CleanedTwice(fn) == cfn = fn /\ Len(cout) = 2

\* C11: for every input text, applying the text-cleaning transform twice
\* gives the same text as applying it once, for the file reader's
\* cleanExtractedText and for the extraction client's cleanSyllabusText.
C11_CleaningIsIdempotent ==
    (CleanedTwice("cleanExtractedText") \/ CleanedTwice("cleanSyllabusText"))
        => cout[2] = cout[1]

\* C11 for the extraction client's transform alone
CleanSyllabusTextIsIdempotent ==
    CleanedTwice("cleanSyllabusText") => cout[2] = cout[1]

\* C11 for either transform on texts that neither cut shortens and that
\* have no character outside \x20-\x7E besides line ends and tabs
CleaningIsIdempotentOnShortPrintable ==
    (/\ Len(cout) = 2
     /\ TextLength(cin) <= 8000
     /\ \A i \in 1..Len(cin) : cin[i].k # "np")
        => cout[2] = cout[1]


(***************************************************************************)
(* Claims about the extraction client's failures (under ExtractSpec)       *)
(***************************************************************************)
\* the call failed with an error thrown at the fetch or on a non-2xx status
FailedWithThrown == Extracted /\ xresp.kind \in {"reject", "http"}

\* the message of that error
ThrownMessage ==
    IF xresp.kind = "reject" THEN xresp.msg
    ELSE <<"OpenAI", "API", "error:", ToString(xresp.status), "-">>
         \o (IF xresp.msg = <<>> THEN <<"Unknown", "error">> ELSE xresp.msg)

Mentions(pattern) == Includes(ThrownMessage, pattern)

RateLimitUserMessage == <<"Too", "many", "requests.">>
QuotaUserMessage == <<"OpenAI", "API", "quota", "exceeded.">>
GenericUserMessage == <<"Topic", "extraction", "failed:">> \o ThrownMessage

MentionsNoKnownPattern ==
    \A pattern \in { <<"API", "key">>, <<"quota">>, <<"billing">>,
                     <<"rate", "limit">>, <<"network">>, <<"fetch">> } :
        ~Mentions(pattern)

\* C12 (as stated): every error message containing "rate limit" maps to the
\* rate-limit user message, every message containing "quota" to the
\* quota/billing user message, and every message matching none of the known
\* patterns to 'Topic extraction failed: <message>'.
C12_ErrorClassification ==
    FailedWithThrown =>
        /\ Mentions(<<"rate", "limit">>) => xres.error = RateLimitUserMessage
        /\ Mentions(<<"quota">>) => xres.error = QuotaUserMessage
        /\ MentionsNoKnownPattern => xres.error = GenericUserMessage

\* C12 (amended): the first matching test decides. A message containing
\* "rate limit" maps to the rate-limit user message unless it also contains
\* "API key", "quota" or "billing"; a message containing "quota" maps to
\* the quota/billing user message unless it also contains "API key"; a
\* message matching none of the known patterns maps to the generic message.
C12_ErrorClassificationFirstMatch ==
    FailedWithThrown =>
        /\ (/\ Mentions(<<"rate", "limit">>)
            /\ ~Mentions(<<"API", "key">>)
            /\ ~Mentions(<<"quota">>)
            /\ ~Mentions(<<"billing">>)) => xres.error = RateLimitUserMessage
        /\ (Mentions(<<"quota">>) /\ ~Mentions(<<"API", "key">>))
               => xres.error = QuotaUserMessage
        /\ (Mentions(<<"billing">>) /\ ~Mentions(<<"API", "key">>))
               => xres.error = QuotaUserMessage
        /\ MentionsNoKnownPattern => xres.error = GenericUserMessage

\* a message with "rate limit" and "billing" was classified as quota/billing
C12_Witness ==
    /\ FailedWithThrown
    /\ Mentions(<<"rate", "limit">>)
    /\ Mentions(<<"billing">>)
    /\ ~Mentions(<<"API", "key">>)
    /\ xres.error = QuotaUserMessage


(***************************************************************************)
(* Claims about the backend rows (under SeqSpec)                           *)
(***************************************************************************)
OrderIndexes(c) == {r.orderIndex : r \in TopicsOf(topics, c)}

\* C13: in every reachable backend state the orderIndex values of the
\* topics of each course are pairwise distinct and are exactly 1..k for the
\* k topics of that course; no gap remains after a removal.
C13_OrderIndexDense ==
    \A c \in CourseIds :
        OrderIndexes(c) = 1..Cardinality(TopicsOf(topics, c))

\* C13 for removals alone: the deleting step of a deleteTopic taken where
\* every course's orderIndex values are 1..k leaves them 1..k
C13_NoGapAfterDeleteTopic ==
    [][\A p \in Clients :
          (/\ pc[p] = "dt_delete"
           /\ topics' # topics
           /\ C13_OrderIndexDense)
          => C13_OrderIndexDense']_vars


C15_OwnerNeverChanges ==
    [][\A q \in courses' :
          IF \E r \in courses : r.id = q.id
          THEN \A r \in courses : r.id = q.id => q.userId = r.userId
          ELSE \E p \in Clients :
                  /\ call[p].op = "createCourse"
                  /\ pc[p] = "cc_insert"
                  /\ q.userId = call[p].user]_vars


(***************************************************************************)
(* More claims about the extraction client (under ExtractSpec)             *)
(***************************************************************************)
\* C16: each invocation of extractTopics issues at most one HTTP request
\* whatever the outcome (non-2xx status, transport failure, unparsable or
\* invalid response); a failed request is never sent again.
C16_AtMostOneRequest ==
    /\ requests <= 1
    /\ xpc = "fetching" => requests = 1
    /\ (Extracted /\ xresp # NoResponse) => requests = 1

\* a call whose one request failed at the transport has returned its failure
C16_Witness ==
    /\ Extracted
    /\ xresp.kind = "reject"
    /\ ~xres.success
    /\ requests = 1


(***************************************************************************)
(* Claims about the file reader (under ReaderSpec)                         *)
(***************************************************************************)
\* readFileText has returned and its result is not yet taken
FileRead == fpc = "done"

\* neither the declared MIME type nor the extension is on the allow-list
OutsideAllowList(f) ==
    /\ \A type \in { <<"application/", "pdf">>, <<"application/", "ms", "word">>,
                     DocxType } : ~Includes(f.type, type)
    /\ f.name # <<>> => f.name[Len(f.name)] \notin {".pdf", ".doc", ".docx"}

\* C17: readFileText returns success false, without attempting any text
\* extraction, for every file whose declared size exceeds 50 MB or whose
\* declared MIME type and file-name extension both fall outside the
\* PDF/Word allow-list.
C17_InvalidFileRejectedUnread ==
    (FileRead /\ (file.size > 50 * 1024 * 1024 \/ OutsideAllowList(file))) =>
        /\ ~fres.success
        /\ extractions = 0

\* a PDF one byte over the limit was turned down without an extraction
C17_Witness ==
    /\ FileRead
    /\ file.size = 50 * 1024 * 1024 + 1
    /\ file.type = PdfType
    /\ EndsWith(file.name, ".pdf")
    /\ ~fres.success
    /\ extractions = 0


(***************************************************************************)
(* Claims about the course store (under StoreSpec)                         *)
(***************************************************************************)
\* the step in which the store's createCourse of client p resolves with success
CreateCourseSucceeds(p) ==
    /\ Resolved(p, "createCourse")
    /\ ret[p].success
    /\ pc'[p] = "idle"

Elements(list) == {list[i] : i \in 1..Len(list)}

\* C18 (as stated): whenever the course store's createCourse resolves with
\* success, the store's course list contains the course returned by the
\* backend and is exactly one element longer than it was before the call.
C18_CreateAddsOneSinceCall ==
    [][\A p \in Clients :
          CreateCourseSucceeds(p) =>
              /\ ret[p].data \in Elements(sCourses')
              /\ Len(sCourses') = sBefore[p] + 1]_vars

\* C18 (amended): whenever the course store's createCourse resolves with
\* success, the store's course list is the course returned by the backend
\* followed by the list as it was when the response arrived, hence one
\* element longer than at that moment (and than before the call whenever no
\* other store action changed the list in between).
C18_CreatePrependsToCurrentList ==
    [][\A p \in Clients :
          CreateCourseSucceeds(p) =>
              /\ ret[p].data \in Elements(sCourses')
              /\ Len(sCourses') = Len(sCourses) + 1
              /\ sCourses' = <<ret[p].data>> \o sCourses
              /\ Len(sCourses) = sBefore[p] => Len(sCourses') = sBefore[p] + 1]_vars

\* a createCourse has resolved into a list that another store action had
\* filled during the call
C18_Witness ==
    /\ Len(sCourses) >= 2
    /\ \E p \in Clients : sBefore[p] = 0 /\ pc[p] = "idle"
    /\ \E i \in 1..Len(sCourses) : sCourses[i].id = CourseId(3)
    /\ ~sLoading


(***************************************************************************)
(* Claims about the course form schema (under SchemaSpec)                  *)
(***************************************************************************)
\* the form has been validated
Validated == form # NoForm

NameLengthFits == TextLength(form.name) >= 3 /\ TextLength(form.name) <= 100

DescriptionFits ==
    ~form.description.given \/ TextLength(form.description.text) <= 500

\* the calendar date on the device when the form was validated
Today == (verdict.at + tz) \div 24

\* C19: createCourseSchema accepts every course whose name has 3 to 100
\* characters and whose end date is today's calendar date or a later date,
\* and rejects an empty name, a name shorter than 3 characters, an empty end
\* date and an end date before today; today's date itself is accepted
\* whatever the local time of day and time-zone offset.
C19_SchemaAcceptsTodayOrLater ==
    Validated =>
        /\ (/\ NameLengthFits
            /\ DescriptionFits
            /\ form.endDate.kind = "iso"
            /\ form.endDate.day >= Today) => verdict.success
        /\ TextLength(form.name) < 3 => ~verdict.success
        /\ form.endDate.kind = "empty" => ~verdict.success
        /\ (form.endDate.kind = "iso" /\ form.endDate.day < Today)
               => ~verdict.success

\* C19, on devices whose local time is not behind UTC: there the statement
\* of C19 holds
C19_HoldsAtOrEastOfGreenwich ==
    tz >= 0 => C19_SchemaAcceptsTodayOrLater

\* C19, the part on rejection: it holds in every time zone
C19_RejectsWhatItShould ==
    Validated =>
        /\ TextLength(form.name) < 3 => ~verdict.success
        /\ form.endDate.kind = "empty" => ~verdict.success
        /\ (form.endDate.kind = "iso" /\ form.endDate.day < Today)
               => ~verdict.success

\* today's date was validated west of Greenwich with a name that fits
C19_TodayWestOfGreenwich ==
    /\ Validated
    /\ tz < 0
    /\ NameLengthFits /\ DescriptionFits
    /\ form.endDate = IsoDate(Today)


(***************************************************************************)
(* Claims about the courses list screen (under ListSpec)                   *)
(***************************************************************************)
\* the calls whose request is out and whose response has not arrived
InFlight == {p \in Clients : pc[p] \notin {"idle", "done"}}

\* C20: in every reachable state of a screen, at most one network call
\* started by that screen's interactions is outstanding: while a file read,
\* extraction, fetch, save, update or delete call is in flight, no user
\* action on that screen can start a second call.
C20_OneOutstandingCall == Cardinality(InFlight) <= 1

\* a consequence of the overlap: no call is in flight and the list shows a
\* course of the user that the backend no longer has
ListShowsDeletedCourse ==
    /\ InFlight = {}
    /\ \A p \in Clients : pc[p] = "idle"
    /\ \E i \in 1..Len(sCourses) :
          /\ sCourses[i].userId = "u1"
          /\ \A k \in courses : k.id # sCourses[i].id


(***************************************************************************)
(* Claims about the add-content flow (under FlowSpec and ReviewSpec)       *)
(***************************************************************************)
\* the step starts an extractTopics call
ExtractionStarts == xpc = "idle" /\ xpc' # "idle"

\* the step starts a saveTopicsForCourse call
SaveStarts == ~saving /\ saving'

\* the read has returned success with text
ReadSucceeded == fpc = "done" /\ fres.success /\ fres.text # <<>>

\* the user confirms the save of a non-empty list on the review screen
SaveIsConfirmed ==
    nav = "review" /\ alert.kind = "save" /\ Len(rTopics) > 0

\* C21 (as stated): in the add-content flow the provider extraction call is
\* started only after readFileText has returned success with text, and
\* saveTopicsForCourse is started only after the user has confirmed saving a
\* non-empty topic list on the review screen; no save call is issued after a
\* skip, a cancel, or a failed read or extraction.
C21_FlowOrder ==
    [][/\ ExtractionStarts => ReadSucceeded
       /\ SaveStarts => SaveIsConfirmed
       /\ SaveStarts =>
            events \cap {"skip", "cancel", "readFailed", "extractFailed"} = {}]_vars

\* C21 (amended): the extraction call is started only after readFileText has
\* returned success with text, and saveTopicsForCourse is started only by
\* the user's confirmation of saving a non-empty list on the review screen;
\* a skip, a cancel, a failed read and a failed extraction start no save
\* call themselves, and none is started once the flow has ended in a skip or
\* a cancel (after a failed read or extraction the user can still reach the
\* review screen and save from there).
C21_FlowOrderPerStep ==
    [][/\ ExtractionStarts => ReadSucceeded
       /\ SaveStarts => SaveIsConfirmed
       /\ SaveStarts => events \cap {"skip", "cancel"} = {}
       /\ events' # events => ~SaveStarts]_vars

\* a save of a non-empty list is under way in a flow whose extraction had
\* failed before
C21_Witness ==
    /\ saving
    /\ Len(savedList) > 0
    /\ "extractFailed" \in events


\* C22: on the review screen, after any sequence of add-topic, rename and
\* confirmed remove-topic actions starting from an extraction result (or
\* from an empty list), the topic at list position i (1-based) has order i,
\* so the orders are exactly 1..n with no gap and no duplicate.
C22_ReviewOrdersArePositions ==
    nav = "review" => \A i \in 1..Len(rTopics) : rTopics[i].order = i

\* the first of two extracted topics has been removed and a topic added:
\* the second extracted topic is now first, the new one second
C22_Witness ==
    /\ nav = "review"
    /\ Len(initialTopics) = 2
    /\ Len(rTopics) = 2
    /\ rTopics[1].id = "topic-2"
    /\ rTopics[2].id \notin {"topic-1", "topic-2"}


\* C23: every topic returned by a successful extractTopics call, and
\* therefore every Topic row persisted through the review-and-save flow, has
\* a non-empty title: no provider entry (for example one whose title is only
\* whitespace) and no rename on the review screen can produce a topic with
\* an empty title.
C23_TitlesNonEmpty ==
    (xpc = "done" /\ xres.success) =>
        \A i \in 1..Len(xres.topics) : xres.topics[i].title # <<>>

\* C23, the part on the review screen (under ReviewSpec): no step gives an
\* empty title to a list position whose title was not empty, and an added
\* topic has a title
C23_ReviewKeepsTitles ==
    [][\A i \in 1..Len(rTopics') :
          \/ rTopics'[i].title # <<>>
          \/ \E j \in 1..Len(rTopics) : rTopics[j].title = <<>>]_vars

\* C23, in the flow (under FlowSpec): a list with an empty title is being
\* saved
SavesEmptyTitle ==
    /\ saving
    /\ \E i \in 1..Len(savedList) : savedList[i].title = <<>>


(***************************************************************************)
(* Claims about the loaded course store (under LoadedSpec)                 *)
(***************************************************************************)

\* the clients whose fetchTopicsForCourse has not yet resolved in the store
TopicFetches == {p \in Clients : pc[p] # "idle" /\ call[p].op = "get"}

\* the clients whose fetchCourses, createCourse, updateCourse or deleteCourse
\* has not yet resolved in the store
CourseOperations ==
    {p \in Clients : /\ pc[p] # "idle"
                     /\ call[p].op \in {"getCourses", "createCourse",
                                        "updateCourse", "deleteCourse"}}

\* C24: after all in-flight fetchTopicsForCourse calls of the course store
\* have completed, the store's topics are those of the course that was
\* requested last, whatever order the responses arrive in; a late response
\* for an earlier course never overwrites the topics of the course requested
\* after it.
C24_TopicsOfLastRequested ==
    TopicFetches = {} =>
        \A i \in 1..Len(sTopics) : sTopics[i].courseId = sRequested

\* what does hold: the store's topics all belong to one course, the one whose
\* response arrived last
C24_TopicsOfOneCourse ==
    \A i, j \in 1..Len(sTopics) : sTopics[i].courseId = sTopics[j].courseId

\* nothing is in flight, c2 was requested last and the store shows the topics
\* of c1
ShowsTopicsOfEarlierCourse ==
    /\ \A p \in Clients : pc[p] = "idle"
    /\ sRequested = "c2"
    /\ ~sLoadingTopics
    /\ sTopicError = None
    /\ Len(sTopics) = 1
    /\ sTopics[1].courseId = "c1"

\* C25: in the course store, isLoading is true whenever at least one of
\* fetchCourses, createCourse, updateCourse or deleteCourse is in flight and
\* false once none is in flight, also when several of these operations
\* overlap and complete in any order.
C25_LoadingWhileInFlight == sLoading <=> CourseOperations # {}

\* the half that holds: isLoading is false once none is in flight
C25_IdleWhenNoneInFlight == CourseOperations = {} => ~sLoading

\* an operation is in flight and isLoading is false
C25_InFlightNotLoading == CourseOperations # {} /\ ~sLoading

\* the response of client p's createCourse, updateCourse or deleteCourse is a
\* failure and the store takes it
CourseOperationFails(p) ==
    /\ pc[p] = "done"
    /\ call[p].op \in {"createCourse", "updateCourse", "deleteCourse"}
    /\ ~ret[p].success
    /\ pc'[p] = "idle"

\* C28: a createCourse, updateCourse or deleteCourse of the course store that
\* fails (failure result or thrown error) leaves courses, selectedCourse and
\* topics unchanged; it only sets error and resets isLoading to false.
C28_FailureLeavesStore ==
    [][\A p \in Clients :
          CourseOperationFails(p) =>
              /\ UNCHANGED <<sCourses, sSelected, sTopics>>
              /\ UNCHANGED <<sLoadingTopics, sTopicError>>
              /\ sError' = ret[p].error
              /\ sError' # None
              /\ sLoading' = FALSE]_vars

\* C28 witness: an updateCourse has failed and the store holds its message
\* next to the list, the selection and the topics it had
C28_Witness ==
    /\ \A p \in Clients : pc[p] = "idle"
    /\ sError \in {"Failed to update course", "Network error while updating course"}
    /\ ~sLoading
    /\ Len(sCourses) = 2
    /\ sSelected.id = "c1"
    /\ Len(sTopics) = 1

(***************************************************************************)
(* Claims about the text sent to the provider (under ExtractSpec)          *)
(***************************************************************************)

\* C26: the minimum-length rule holds for the text that is actually sent:
\* whenever extractTopics issues a provider request, the cleaned syllabus
\* text embedded in the prompt has at least 50 and at most 8000 characters.
C26_SentTextLength ==
    xpc = "fetching" =>
        /\ TextLength(xreq) >= MinSyllabusLength
        /\ TextLength(xreq) <= MaxSyllabusLength

\* the half that holds: the text sent has at most 8000 characters, and the
\* text handed in had at least 50 after trimming
C26_SentTextBounded ==
    xpc = "fetching" =>
        /\ TextLength(xreq) <= MaxSyllabusLength
        /\ TextLength(TrimText(xtext)) >= MinSyllabusLength

\* a request is out whose text is shorter than 50 characters
C26_ShortTextSent == xpc = "fetching" /\ TextLength(xreq) < MinSyllabusLength

(***************************************************************************)
(* Claims about the conversions (under ConvertSpec)                        *)
(***************************************************************************)

\* C27: for every ExtractedTopic t with a keyword list, converting t to a
\* Topic with extractedTopicToTopic and back with topicToExtractedTopic
\* yields the same title, order and keyword list as t: the keywords survive
\* being flattened with ', ' and split again.
C27_KeywordsSurviveRoundTrip ==
    (cvStage = "back" /\ cvIn.keywords.present) =>
        /\ cvOut.title = cvIn.title
        /\ cvOut.order = cvIn.order
        /\ cvOut.keywords = cvIn.keywords

\* a keyword that has a character besides whitespace and no ', ' inside
PlainKeyword(k) ==
    /\ TrimChars(k) # <<>>
    /\ \A i \in 1..(Len(k) - 1) : SubSeq(k, i, i + 1) # CommaSpace

\* what does hold: title and order survive, and so do the keywords when each
\* of them is a plain keyword
C27_PlainKeywordsSurvive ==
    (cvStage = "back" /\ cvIn.keywords.present) =>
        /\ cvOut.title = cvIn.title
        /\ cvOut.order = cvIn.order
        /\ (\A i \in 1..Len(cvIn.keywords.list) :
                PlainKeyword(cvIn.keywords.list[i]))
              => cvOut.keywords = cvIn.keywords

\* one keyword 'a, b' went in and the two keywords 'a' and 'b' came back
C27_KeywordSplitInTwo ==
    /\ cvStage = "back"
    /\ cvIn.keywords.present
    /\ cvIn.keywords.list = << <<"a", ",", " ", "b">> >>
    /\ cvOut.keywords.list = << <<"a">>, <<"b">> >>

(***************************************************************************)
(* Claims about the auth store (under AuthSpec)                            *)
(***************************************************************************)

\* the catch of logout runs in this step
LogoutFails ==
    /\ aPc["logout"] = "await"
    /\ aPc'["logout"] = "idle"
    /\ aLast' = "logoutFailed"

\* C30: in every reachable state of the auth store, isAuthenticated is true
\* exactly when user is non-null, after any interleaving of login, signup,
\* logout, initializeAuth, setUser, clearAuth and SIGNED_IN / SIGNED_OUT auth
\* events; a failed logout leaves user and isAuthenticated unchanged.
C30_AuthenticatedIffUser ==
    /\ aAuthenticated <=> aUser # NoUser
    /\ [][/\ aAuthenticated' <=> aUser' # NoUser
          /\ LogoutFails => UNCHANGED <<aUser, aAuthenticated>>]_vars

\* C30 witness: a logout has failed while a user is signed in, and the user
\* is still there
C30_Witness ==
    /\ aLast = "logoutFailed"
    /\ aUser \in Users
    /\ aAuthenticated
    /\ ~aLoading

(***************************************************************************)
(* Claims about the file reader's validation and dispatch (ReaderSpec)     *)
(***************************************************************************)

\* readFileText has taken a file and has not yet handed back its result
FileTaken == fpc # "idle"

\* C29: validation and dispatch of readFileText agree: every file that
\* passes validateFile (size within 50 MB and MIME type or file-name
\* extension in the allow-list) is handed to the PDF or the Word extractor,
\* and none is afterwards rejected with 'Unsupported file type'.
C29_ValidatedIsDispatched ==
    (FileTaken /\ ValidateFile(file).isValid) =>
        /\ extractions > 0
        /\ fres.error # "Unsupported file type"

\* what does hold: a file within the size limit whose MIME type is in the
\* allow-list is handed to an extractor
C29_ListedTypeIsDispatched ==
    (/\ FileTaken
     /\ file.size <= MaxFileSize
     /\ \E type \in {PdfType, DocType, DocxType} : Includes(file.type, type))
        => extractions > 0 /\ fres.error # "Unsupported file type"

\* syllabus.pdf, declared as text/plain, has passed validateFile and is
\* rejected as unsupported by the dispatch
C29_AcceptedThenUnsupported ==
    /\ fpc = "done"
    /\ file = FileInfo(<<"text/", "plain">>, <<"syllabus", ".pdf">>, 512000)
    /\ ValidateFile(file).isValid
    /\ extractions = 0
    /\ fres = FileFailure("Unsupported file type")

====
